---- MODULE Spec2Model ----
(***************************************************************************)
(* BalanceCloud chunked encryption engine.                                 *)
(*                                                                         *)
(* The repository documents the engine in its encryption architecture     *)
(* design, its encryption service contract and its encryption architecture *)
(* documentation: the chunking algorithm, the chunk key derivation, the    *)
(* database schema and the upload / download / key retrieval flows.  The   *)
(* Python services that implement them are not part of the sources at      *)
(* hand; what the documents leave open (error classes, index validation,   *)
(* handling of a uniqueness violation, parallel fan-out) follows the       *)
(* specification of the engine.                                            *)
(*                                                                         *)
(* Cryptography is modelled symbolically: a key derivation is the record   *)
(* of its inputs, a GCM tag is the record of (key, nonce, ciphertext), a   *)
(* SHA-256 digest is the record of its input, and os.urandom draws are     *)
(* fresh values taken from a counter.  The ciphertext bytes themselves are *)
(* computed: plaintext byte plus a keystream byte, modulo ByteMod.         *)
(*                                                                         *)
(* The specifications of the engine share the variables: Spec (upload, the *)
(* rows at rest, download of one file), SpecDamage (the same with several  *)
(* chunks damaged at rest), SpecKeys (get_or_create under concurrent       *)
(* callers), SpecCipher (chunk encryptions of one user over several files) *)
(* and SpecParallel (the encrypt flow with chunk fan-out and cancellation, *)
(* which the sources name as a goal and the specification describes).      *)
(*                                                                         *)
(* The React frontend is modelled from its TypeScript sources: SpecOAuth   *)
(* (connecting a cloud account), SpecFiles (the files store over the API   *)
(* client) and SpecAuth (the authentication store).  Each callback runs to *)
(* its next await as one step.                                             *)
(***************************************************************************)
EXTENDS Integers, Sequences, FiniteSets, TLC

VARIABLES
    \* ---- one file operation (upload, storage at rest, download) ----
    fileData,     \* the plaintext handed to the upload flow
    chunkSize,    \* the chunk size of this call
    mode,         \* "sequential" or "parallel" chunk decryption
    userKey,      \* the user key the flows obtained (NoKey before)
    ePc,          \* state of the encrypt flow
    eChunks,      \* segments produced by chunk_file
    emitted,      \* chunk records emitted so far, in emission order
    eTotal,       \* total size returned on completion
    rng,          \* source of fresh random values (IVs, keys, salts)
    stored,       \* the chunk records at rest, in physical order
    faults,       \* number of storage perturbations so far
    dPc,          \* state of the decrypt flow
    dRecs,        \* records after ORDER BY chunk_index
    dPending,     \* chunk indices not yet decrypted
    dSlots,       \* decrypted chunks by index
    dOut,         \* bytes handed to the caller
    dErr,         \* error reported to the caller
    dKey,         \* the user key the decrypt flow obtained (NoKey before)
    dOrder,       \* list positions of the decrypted chunks, in completion order
    \* ---- key storage (get_or_create under concurrent callers) ----
    keyTable,     \* rows of encryption_keys
    masterSecret, \* ENCRYPTION_KEY of the running process
    kPc,          \* per caller: position inside get_or_create
    kUser,        \* per caller: user id of the call
    kRow,         \* per caller: row fetched by the last lookup
    kNew,         \* per caller: freshly generated key and its sealed form
    kRes,         \* per caller: outcome of the call
    kCalls,       \* number of calls started
    kFaults,      \* number of faults injected at the storage boundary
    kOrig,        \* per user: the row as inserted, its plaintext key and the secret in use
    kViolation,   \* per caller: the call hit the uniqueness violation
    kRng,         \* source of fresh random values (keys, salts, nonces)
    \* ---- record of the steps taken ----
    dTrace,       \* download: the steps performed on each chunk, in order
    \* ---- chunk encryptions of one user over several files ----
    cUserKey,     \* the user key (NoKey before it is obtained)
    cLog,         \* every chunk encryption so far: its inputs and the row it produced
    cRng,         \* source of fresh random values (keys, IVs)
    \* ---- chunk fan-out of the encrypt flow over a bounded worker pool ----
    pNext,        \* number of chunks dispatched so far
    pInFlight,    \* chunk operations dispatched and not yet over
    pResults,     \* chunk records in the order the operations completed
    pCancelled,   \* the caller cancelled the file operation
    pAbandoned,   \* chunk indices whose operation was abandoned
    \* ---- frontend: connecting a cloud account (OAuth) ----
    oPage,          \* the page the browser shows
    sessionStorage, \* per provider: the item oauth_state_<provider> (Null if absent)
    oLocation,      \* the URL the provider redirected to: pathname and search parameters
    oPending,       \* the provider and state of the last initiateOAuth answer
    oCalls,         \* the calls of the callback endpoint, in order
    accounts,       \* cloudAccountsStore.accounts
    cloudError,     \* cloudAccountsStore.error / the page's error
    oRng,           \* source of the backend's random state values
    \* ---- frontend: files store ----
    filesStore,       \* the state of useFilesStore
    serverFiles,      \* number of files the backend holds
    usageInFlight,    \* getStorageUsage requests sent and not yet answered
    usageSkipped,     \* fetchStorageUsage calls that returned at the guard
    refreshTimers,    \* setTimeout callbacks waiting to call fetchStorageUsage
    progressIntervals,\* setInterval timers of uploadFile that are not cleared
    uploadPc,         \* position of the uploadFile call
    deletePc,         \* position of the deleteFile call
    fsCalls,          \* number of calls made: page effects, uploads, deletes
    \* ---- frontend: authentication store ----
    authStore,        \* the state of useAuthStore
    localStorage,     \* the item auth_token (Null if absent)
    authPending,      \* the login / register call under way and the request it awaits
    authOutcome,      \* how the last login / register call ended
    authCalls         \* number of login / register calls made

fileVars == <<fileData, chunkSize, mode, userKey, ePc, eChunks, emitted, eTotal,
              rng, stored, faults, dPc, dRecs, dPending, dSlots, dOut, dErr, dKey,
              dOrder>>
keyVars == <<keyTable, masterSecret, kPc, kUser, kRow, kNew, kRes, kCalls,
             kFaults, kOrig, kViolation, kRng>>
cipherVars == <<cUserKey, cLog, cRng>>
parVars == <<pNext, pInFlight, pResults, pCancelled, pAbandoned>>
engineVars == <<fileVars, keyVars, dTrace, cipherVars, parVars>>
oauthVars == <<oPage, sessionStorage, oLocation, oPending, oCalls, accounts,
               cloudError, oRng>>
fsVars == <<filesStore, serverFiles, usageInFlight, usageSkipped, refreshTimers,
            progressIntervals, uploadPc, deletePc, fsCalls>>
authVars == <<authStore, localStorage, authPending, authOutcome, authCalls>>
webVars == <<oauthVars, fsVars, authVars>>
extVars == <<dTrace, cipherVars, parVars, webVars>>
vars == <<fileVars, keyVars, extVars>>

----------------------------------------------------------------------------
\* Bounds of the model
MaxLen == 3
MaxChunk == 2
MaxFaults == 1
NumProcs == 2
MaxCalls == 3
MaxKeyFaults == 1
MaxEncCalls == 3
MaxWorkers == 2

\* Program constants
TagLen == 16
MiB == 1048576

Byte == {0, 1}
ByteMod == Cardinality(Byte)
NoKey == <<>>
FileId == <<"f", "1">>

BoundedSeq(S, n) == UNION {[1 .. k -> S] : k \in 0 .. n}

Min(S) == CHOOSE x \in S : \A y \in S : x <= y

RECURSIVE SumSeq(_)
SumSeq(s) == IF s = <<>> THEN 0 ELSE Head(s) + SumSeq(Tail(s))

RECURSIVE Concat(_)
Concat(ss) == IF ss = <<>> THEN <<>> ELSE Head(ss) \o Concat(Tail(ss))

Slice(s, from, to) == [i \in 1 .. (to - from) |-> s[from + i]]

----------------------------------------------------------------------------
\* Chunker

\* A chunker that forgets the final short segment (loops while a full chunk is left).
RECURSIVE chunk_from_full_only(_, _, _)
chunk_from_full_only(file_data, chunk_size, offset) ==
    IF offset + chunk_size <= Len(file_data)
    THEN <<Slice(file_data, offset, offset + chunk_size)>>
         \o chunk_from_full_only(file_data, chunk_size, offset + chunk_size)
    ELSE <<>>

chunk_file_drops_tail(file_data, chunk_size) == chunk_from_full_only(file_data, chunk_size, 0)

\* A chunker whose loop runs while offset <= len: a trailing empty segment on exact multiples.
RECURSIVE chunk_from_inclusive(_, _, _)
chunk_from_inclusive(file_data, chunk_size, offset) ==
    IF offset <= Len(file_data)
    THEN LET end == IF offset + chunk_size < Len(file_data)
                    THEN offset + chunk_size ELSE Len(file_data)
         IN <<Slice(file_data, offset, end)>>
            \o chunk_from_inclusive(file_data, chunk_size, offset + chunk_size)
    ELSE <<>>

chunk_file_trailing_empty(file_data, chunk_size) == chunk_from_inclusive(file_data, chunk_size, 0)

\* while offset < len(file_data): chunks.append(file_data[offset:offset + CHUNK_SIZE])
RECURSIVE chunk_from(_, _, _)
chunk_from(file_data, chunk_size, offset) ==
    IF offset < Len(file_data)
    THEN LET end == IF offset + chunk_size < Len(file_data)
                    THEN offset + chunk_size ELSE Len(file_data)
         IN <<Slice(file_data, offset, end)>>
            \o chunk_from(file_data, chunk_size, offset + chunk_size)
    ELSE <<>>

chunk_file(file_data, chunk_size) == chunk_from(file_data, chunk_size, 0)

\* The same loop over lengths only: the sizes of the slices of a buffer of `len` bytes.
RECURSIVE chunk_sizes_from(_, _, _)
chunk_sizes_from(len, chunk_size, offset) ==
    IF offset < len
    THEN <<(IF offset + chunk_size < len THEN chunk_size ELSE len - offset)>>
         \o chunk_sizes_from(len, chunk_size, offset + chunk_size)
    ELSE <<>>

chunk_sizes(len, chunk_size) == chunk_sizes_from(len, chunk_size, 0)

----------------------------------------------------------------------------
\* Chunk key derivation

Digits == <<"0", "1", "2", "3", "4", "5", "6", "7", "8", "9">>
Alphabet == Digits \o <<":", "f">>

\* str(chunk_index): decimal, no leading zeros
RECURSIVE Dec(_)
Dec(n) == IF n < 10 THEN <<Digits[n + 1]>> ELSE Dec(n \div 10) \o <<Digits[(n % 10) + 1]>>

\* An info string without the separator between file id and chunk index.
chunk_info_without_separator(file_id, chunk_index) == file_id \o Dec(chunk_index)

\* info = f"{file_id}:{chunk_index}"
chunk_info(file_id, chunk_index) == file_id \o <<":">> \o Dec(chunk_index)

\* An info string that leaves the chunk index out.
derive_chunk_key_no_index(user_key, file_id, chunk_index) ==
    [hkdf |-> "SHA256", length |-> 32, salt |-> user_key, ikm |-> user_key,
     info |-> file_id]

\* HKDF(algorithm=SHA256, length=32, salt=user_key, info=info).derive(user_key)
derive_chunk_key(user_key, file_id, chunk_index) ==
    [hkdf |-> "SHA256", length |-> 32, salt |-> user_key, ikm |-> user_key,
     info |-> chunk_info(file_id, chunk_index)]

----------------------------------------------------------------------------
\* Chunk cipher (AES-256-GCM, SHA-256 checksum)

CharCode(c) == CHOOSE i \in 1 .. Len(Alphabet) : Alphabet[i] = c

RECURSIVE InfoNum(_)
InfoNum(info) == IF info = <<>> THEN 0 ELSE CharCode(Head(info)) + InfoNum(Tail(info))

\* Keystream byte of the counter mode under (key, iv) at position pos.
Keystream(key, iv, pos) == (key.ikm + InfoNum(key.info) + iv + pos) % ByteMod

\* A tag that authenticates the key and the nonce but not the ciphertext bytes.
GcmTagWithoutCiphertext(key, iv, ct) == [key |-> key, iv |-> iv, ct |-> <<>>, flipped |-> FALSE]

\* The GCM authentication tag over the ciphertext under (key, iv).
GcmTag(key, iv, ct) == [key |-> key, iv |-> iv, ct |-> ct, flipped |-> FALSE]

\* hashlib.sha256(data).hexdigest()
calculate_checksum(data) == [sha256 |-> data]

verify_checksum(data, expected) == calculate_checksum(data) = expected

\* An IV that is the same for every encryption.
generate_iv_constant(random) == 0

\* os.urandom(12): a cryptographically secure random IV, unique per encryption
\* operation (`random` is the next unused value of the random source).
generate_iv(random) == random

\* AES-256-GCM.encrypt(iv, chunk_data, None): ciphertext with the 16-byte tag appended
encrypt_file_chunk(chunk_data, chunk_key, iv) ==
    LET ct == [i \in 1 .. Len(chunk_data) |->
                 (chunk_data[i] + Keystream(chunk_key, iv, i)) % ByteMod]
        data == [ct |-> ct, tag |-> GcmTag(chunk_key, iv, ct)]
    IN [encrypted_data |-> data, iv |-> iv, checksum |-> calculate_checksum(data)]

\* A decryption that returns the counter-mode plaintext without verifying the tag.
decrypt_file_chunk_unverified(encrypted_data, chunk_key, iv) ==
    [ok |-> TRUE,
     data |-> [i \in 1 .. Len(encrypted_data.ct) |->
                 (encrypted_data.ct[i] + ByteMod - Keystream(chunk_key, iv, i)) % ByteMod]]

\* AES-256-GCM.decrypt(iv, encrypted_data, None): raises when the tag is invalid
decrypt_file_chunk(encrypted_data, chunk_key, iv) ==
    IF encrypted_data.tag = GcmTag(chunk_key, iv, encrypted_data.ct)
    THEN [ok |-> TRUE,
          data |-> [i \in 1 .. Len(encrypted_data.ct) |->
                      (encrypted_data.ct[i] + ByteMod - Keystream(chunk_key, iv, i)) % ByteMod]]
    ELSE [ok |-> FALSE, data |-> <<>>]

\* A size that counts the ciphertext bytes and leaves the tag out.
EncryptedSizeWithoutTag(data) == Len(data.ct)

\* Size of ciphertext_with_tag in bytes.
EncryptedSize(data) == Len(data.ct) + TagLen

----------------------------------------------------------------------------
\* Chunk records and their order

\* 1-based chunk numbering.
ChunkIndexOneBased(position) == position

\* chunk_index of the chunk at 1-based list position `position`: 0, 1, 2, ...
ChunkIndexAt(position) == position - 1

\* The row written to storage_chunks for one encrypted chunk.
ChunkRecord(file_id, chunk_index, chunk_data, enc) ==
    [file_id |-> file_id, chunk_index |-> chunk_index, chunk_size |-> Len(chunk_data),
     encrypted_size |-> EncryptedSize(enc.encrypted_data), iv |-> enc.iv,
     checksum |-> enc.checksum, data |-> enc.encrypted_data]

RECURSIVE InsertByIndex(_, _)
InsertByIndex(r, s) ==
    IF s = <<>> THEN <<r>>
    ELSE IF r.chunk_index < Head(s).chunk_index THEN <<r>> \o s
    ELSE <<Head(s)>> \o InsertByIndex(r, Tail(s))

\* A query that returns the rows in their physical order.
OrderByChunkIndexMissing(records) == records

\* SELECT ... FROM storage_chunks WHERE file_id = ? ORDER BY chunk_index
RECURSIVE OrderByChunkIndex(_)
OrderByChunkIndex(records) ==
    IF records = <<>> THEN <<>>
    ELSE InsertByIndex(Head(records), OrderByChunkIndex(Tail(records)))

\* A validation that accepts every list.
ValidIndicesUnchecked(records) == TRUE

\* The indices of the ordered list are exactly 0 .. N-1: no gap, no duplicate.
ValidIndices(records) ==
    \A i \in 1 .. Len(records) : records[i].chunk_index = i - 1

\* A reassembly that appends the chunks as their decryptions complete.
ReassembleInCompletionOrder(slots, order) ==
    Concat([i \in 1 .. Len(order) |-> slots[order[i]]])

\* A reassembly whose loop stops one chunk short.
ReassembleWithoutLast(slots, order) ==
    Concat(SubSeq(slots, 1, Len(slots) - 1))

\* Concatenate the decrypted chunks in index order.
Reassemble(slots, order) == Concat(slots)

\* A chunk step that derives the key and decrypts first and compares the checksum last.
DownloadChunkKeyFirst(r, user_key) ==
    LET chunk_key == derive_chunk_key(user_key, r.file_id, r.chunk_index)
        res == decrypt_file_chunk(r.data, chunk_key, r.iv)
    IN IF ~res.ok
       THEN [class |-> "ChunkAuthenticationError", data |-> <<>>,
             steps |-> <<"derive_chunk_key", "decrypt_file_chunk">>]
       ELSE IF ~verify_checksum(r.data, r.checksum)
       THEN [class |-> "ChunkCorruptedError", data |-> <<>>,
             steps |-> <<"derive_chunk_key", "decrypt_file_chunk", "verify_checksum">>]
       ELSE [class |-> "None", data |-> res.data,
             steps |-> <<"derive_chunk_key", "decrypt_file_chunk", "verify_checksum">>]

\* A download step that derives the key and decrypts a second time when the
\* decryption fails.
DownloadChunkRetry(r, user_key) ==
    IF ~verify_checksum(r.data, r.checksum)
    THEN [class |-> "ChunkCorruptedError", data |-> <<>>, steps |-> <<"verify_checksum">>]
    ELSE LET chunk_key == derive_chunk_key(user_key, r.file_id, r.chunk_index)
             res == decrypt_file_chunk(r.data, chunk_key, r.iv)
         IN IF ~res.ok
            THEN [class |-> "ChunkAuthenticationError", data |-> <<>>,
                  steps |-> <<"verify_checksum", "derive_chunk_key", "decrypt_file_chunk",
                              "derive_chunk_key", "decrypt_file_chunk">>]
            ELSE [class |-> "None", data |-> res.data,
                  steps |-> <<"verify_checksum", "derive_chunk_key", "decrypt_file_chunk">>]

\* Download step 4 for one chunk record: (b) verify the checksum, (c) derive the chunk
\* key from the user key, (d) decrypt the chunk with chunk key and IV.  `steps` lists
\* the steps that were performed, in order.
DownloadChunk(r, user_key) ==
    IF ~verify_checksum(r.data, r.checksum)
    THEN [class |-> "ChunkCorruptedError", data |-> <<>>, steps |-> <<"verify_checksum">>]
    ELSE LET chunk_key == derive_chunk_key(user_key, r.file_id, r.chunk_index)
             res == decrypt_file_chunk(r.data, chunk_key, r.iv)
         IN IF ~res.ok
            THEN [class |-> "ChunkAuthenticationError", data |-> <<>>,
                  steps |-> <<"verify_checksum", "derive_chunk_key", "decrypt_file_chunk">>]
            ELSE [class |-> "None", data |-> res.data,
                  steps |-> <<"verify_checksum", "derive_chunk_key", "decrypt_file_chunk">>]

\* Chunk operations taken in any order, whatever the mode.
DispatchableInAnyOrder(m, pending) == pending

\* The chunk operations that may run next: the next list position in sequential
\* mode, any outstanding one in parallel mode.
Dispatchable(m, pending) ==
    IF pending = {} THEN {}
    ELSE IF m = "sequential" THEN {Min(pending)} ELSE pending

NoError == [class |-> "None", index |-> -1]

IndexPerms(n) == {p \in [1 .. n -> 1 .. n] : \A i, j \in 1 .. n : p[i] = p[j] => i = j}

----------------------------------------------------------------------------
\* One file operation: upload flow, the records at rest, download flow

FileInit ==
    /\ fileData \in BoundedSeq(Byte, MaxLen)
    /\ chunkSize \in 1 .. MaxChunk
    /\ mode \in {"sequential", "parallel"}
    /\ userKey = NoKey
    /\ ePc = "Init"
    /\ eChunks = <<>>
    /\ emitted = <<>>
    /\ eTotal = 0
    /\ rng = 1
    /\ stored = <<>>
    /\ faults = 0
    /\ dPc = "Init"
    /\ dRecs = <<>>
    /\ dPending = {}
    /\ dSlots = <<>>
    /\ dOut = <<>>
    /\ dErr = NoError
    /\ dKey = NoKey
    /\ dOrder = <<>>

\* Upload step 2: get or create the user encryption key (a fresh key on first upload).
E_GetKey ==
    /\ ePc = "Init"
    /\ userKey' = <<rng>>
    /\ rng' = rng + 1
    /\ ePc' = "KeyReady"
    /\ UNCHANGED <<fileData, chunkSize, mode, eChunks, emitted, eTotal, stored, faults,
                   dPc, dRecs, dPending, dSlots, dOut, dErr, dKey, dOrder>>
    /\ UNCHANGED <<keyVars, extVars>>

\* A chunking step that does not wait for the user key.
E_ChunkBeforeKey ==
    /\ ePc \in {"Init", "KeyReady"}
    /\ eChunks' = chunk_file(fileData, chunkSize)
    /\ ePc' = "Chunking"
    /\ UNCHANGED <<fileData, chunkSize, mode, userKey, emitted, eTotal, rng, stored,
                   faults, dPc, dRecs, dPending, dSlots, dOut, dErr, dKey, dOrder>>
    /\ UNCHANGED <<keyVars, extVars>>

\* Upload step 3: split the file into chunks.
E_Chunk ==
    /\ ePc = "KeyReady"
    /\ eChunks' = chunk_file(fileData, chunkSize)
    /\ ePc' = "Chunking"
    /\ UNCHANGED <<fileData, chunkSize, mode, userKey, emitted, eTotal, rng, stored,
                   faults, dPc, dRecs, dPending, dSlots, dOut, dErr, dKey, dOrder>>
    /\ UNCHANGED <<keyVars, extVars>>

\* Upload step 4, once per chunk in list order: derive the chunk key, draw a random
\* IV, encrypt, compute the checksum, store the chunk metadata.
E_EncryptChunk ==
    /\ ePc \in {"Chunking", "EncryptingChunk"}
    /\ Len(emitted) < Len(eChunks)
    /\ LET position == Len(emitted) + 1
           chunk_index == ChunkIndexAt(position)
           chunk_key == derive_chunk_key(userKey[1], FileId, chunk_index)
           enc == encrypt_file_chunk(eChunks[position], chunk_key, generate_iv(rng))
       IN emitted' = Append(emitted, ChunkRecord(FileId, chunk_index, eChunks[position], enc))
    /\ rng' = rng + 1
    /\ ePc' = "EncryptingChunk"
    /\ UNCHANGED <<fileData, chunkSize, mode, userKey, eChunks, eTotal, stored, faults,
                   dPc, dRecs, dPending, dSlots, dOut, dErr, dKey, dOrder>>
    /\ UNCHANGED <<keyVars, extVars>>

\* Upload steps 5-6: every chunk is stored; create the file record, return the metadata.
E_Finish ==
    /\ ePc \in {"Chunking", "EncryptingChunk"}
    /\ Len(emitted) = Len(eChunks)
    /\ eTotal' = SumSeq([i \in 1 .. Len(emitted) |-> emitted[i].chunk_size])
    /\ stored' = emitted
    /\ ePc' = "Done"
    /\ UNCHANGED <<fileData, chunkSize, mode, userKey, eChunks, emitted, rng, faults,
                   dPc, dRecs, dPending, dSlots, dOut, dErr, dKey, dOrder>>
    /\ UNCHANGED <<keyVars, extVars>>

AtRest == ePc = "Done" /\ dPc = "Init" /\ dKey = NoKey /\ faults < MaxFaults

\* The storage layer hands the rows over in another physical order.
S_Shuffle ==
    /\ AtRest
    /\ \E p \in IndexPerms(Len(stored)) :
          /\ \E i \in 1 .. Len(stored) : p[i] # i
          /\ stored' = [i \in 1 .. Len(stored) |-> stored[p[i]]]
    /\ faults' = faults + 1
    /\ UNCHANGED <<fileData, chunkSize, mode, userKey, ePc, eChunks, emitted, eTotal, rng,
                   dPc, dRecs, dPending, dSlots, dOut, dErr, dKey, dOrder>>
    /\ UNCHANGED <<keyVars, extVars>>

\* A row is missing from the list supplied for decryption.
S_Drop ==
    /\ AtRest
    /\ \E i \in 1 .. Len(stored) :
          stored' = SubSeq(stored, 1, i - 1) \o SubSeq(stored, i + 1, Len(stored))
    /\ faults' = faults + 1
    /\ UNCHANGED <<fileData, chunkSize, mode, userKey, ePc, eChunks, emitted, eTotal, rng,
                   dPc, dRecs, dPending, dSlots, dOut, dErr, dKey, dOrder>>
    /\ UNCHANGED <<keyVars, extVars>>

\* A row appears twice in the list supplied for decryption.
S_Duplicate ==
    /\ AtRest
    /\ \E i \in 1 .. Len(stored) :
          stored' = SubSeq(stored, 1, i) \o SubSeq(stored, i, Len(stored))
    /\ faults' = faults + 1
    /\ UNCHANGED <<fileData, chunkSize, mode, userKey, ePc, eChunks, emitted, eTotal, rng,
                   dPc, dRecs, dPending, dSlots, dOut, dErr, dKey, dOrder>>
    /\ UNCHANGED <<keyVars, extVars>>

\* The stored bytes of a chunk are altered: one ciphertext byte (what > 0) or the tag
\* (what = 0); the stored checksum is left as it was or recomputed over the new bytes.
S_Tamper ==
    /\ AtRest
    /\ \E i \in 1 .. Len(stored), recompute \in BOOLEAN :
         \E what \in 0 .. Len(stored[i].data.ct) :
            LET old == stored[i].data
                new == IF what = 0
                       THEN [old EXCEPT !.tag.flipped = ~@]
                       ELSE [old EXCEPT !.ct[what] = (@ + 1) % ByteMod]
            IN stored' = [stored EXCEPT ![i] =
                            [@ EXCEPT !.data = new,
                                      !.checksum = IF recompute
                                                   THEN calculate_checksum(new) ELSE @]]
    /\ faults' = faults + 1
    /\ UNCHANGED <<fileData, chunkSize, mode, userKey, ePc, eChunks, emitted, eTotal, rng,
                   dPc, dRecs, dPending, dSlots, dOut, dErr, dKey, dOrder>>
    /\ UNCHANGED <<keyVars, extVars>>

\* The stored tag of a chunk is altered; the stored checksum is left as it was or
\* recomputed over the new bytes.
FlipTag(r, recompute) ==
    LET new == [r.data EXCEPT !.tag.flipped = ~@]
    IN [r EXCEPT !.data = new,
                 !.checksum = IF recompute THEN calculate_checksum(new) ELSE @]

\* The stored bytes of several chunks are altered.
S_TamperSeveral ==
    /\ AtRest
    /\ \E damaged \in SUBSET (1 .. Len(stored)) :
          /\ Cardinality(damaged) >= 2
          /\ \E recompute \in [damaged -> BOOLEAN] :
                stored' = [i \in 1 .. Len(stored) |->
                             IF i \in damaged THEN FlipTag(stored[i], recompute[i])
                             ELSE stored[i]]
    /\ faults' = faults + 1
    /\ UNCHANGED <<fileData, chunkSize, mode, userKey, ePc, eChunks, emitted, eTotal, rng,
                   dPc, dRecs, dPending, dSlots, dOut, dErr, dKey, dOrder>>
    /\ UNCHANGED <<keyVars, extVars>>

\* Download step 2: get the user encryption key.
D_GetKey ==
    /\ ePc = "Done"
    /\ dPc = "Init"
    /\ dKey = NoKey
    /\ dKey' = userKey
    /\ UNCHANGED <<fileData, chunkSize, mode, userKey, ePc, eChunks, emitted, eTotal, rng,
                   stored, faults, dPc, dRecs, dPending, dSlots, dOut, dErr, dOrder>>
    /\ UNCHANGED <<keyVars, extVars>>

\* Download step 3: query all chunks ordered by chunk_index; a list with a gap or a
\* duplicate index is rejected.
D_LoadMetadata ==
    /\ dPc = "Init"
    /\ dKey # NoKey
    /\ LET ordered == OrderByChunkIndex(stored)
       IN IF ValidIndices(ordered)
          THEN /\ dRecs' = ordered
               /\ dPc' = "MetadataLoaded"
               /\ dErr' = dErr
               /\ dPending' = 1 .. Len(ordered)
               /\ dSlots' = [p \in 1 .. Len(ordered) |-> <<>>]
          ELSE /\ dRecs' = <<>>
               /\ dPc' = "Failed"
               /\ dErr' = [class |-> "CorruptMetadataError", index |-> -1]
               /\ dPending' = {}
               /\ dSlots' = <<>>
    /\ UNCHANGED <<fileData, chunkSize, mode, userKey, ePc, eChunks, emitted, eTotal, rng,
                   stored, faults, dOut, dKey, dOrder>>
    /\ UNCHANGED <<keyVars, extVars>>

\* Download step 4 for the chunk at list position p: verify the checksum, derive the
\* chunk key, decrypt.  Sequential mode takes the chunks in list order; in parallel
\* mode the chunk operations complete in any order, each filling its own slot.
D_DecryptChunk ==
    /\ dPc \in {"MetadataLoaded", "DecryptingChunk"}
    /\ \E p \in Dispatchable(mode, dPending) :
         /\ LET r == dRecs[p]
                res == DownloadChunk(r, dKey[1])
            IN /\ dTrace' = dTrace \o [k \in 1 .. Len(res.steps) |->
                                         [index |-> r.chunk_index, step |-> res.steps[k]]]
               /\ IF res.class # "None"
                  THEN /\ dPc' = "Failed"
                       /\ dErr' = [class |-> res.class, index |-> r.chunk_index]
                       /\ dPending' = {}
                       /\ dSlots' = <<>>
                       /\ dOrder' = dOrder
                  ELSE /\ dPc' = "DecryptingChunk"
                       /\ dErr' = dErr
                       /\ dPending' = dPending \ {p}
                       /\ dSlots' = [dSlots EXCEPT ![p] = res.data]
                       /\ dOrder' = Append(dOrder, p)
    /\ UNCHANGED <<fileData, chunkSize, mode, userKey, ePc, eChunks, emitted, eTotal, rng,
                   stored, faults, dRecs, dOut, dKey>>
    /\ UNCHANGED <<keyVars, cipherVars, parVars, webVars>>

\* A reassembly that does not wait for the outstanding chunks.
D_ReassembleEarly ==
    /\ dPc \in {"MetadataLoaded", "DecryptingChunk"}
    /\ dPc' = "Reassembling"
    /\ UNCHANGED <<fileData, chunkSize, mode, userKey, ePc, eChunks, emitted, eTotal, rng,
                   stored, faults, dRecs, dPending, dSlots, dOut, dErr, dKey, dOrder>>
    /\ UNCHANGED <<keyVars, extVars>>

\* Every chunk is decrypted: reassembly starts.
D_Reassemble ==
    /\ dPc \in {"MetadataLoaded", "DecryptingChunk"}
    /\ dPending = {}
    /\ dPc' = "Reassembling"
    /\ UNCHANGED <<fileData, chunkSize, mode, userKey, ePc, eChunks, emitted, eTotal, rng,
                   stored, faults, dRecs, dPending, dSlots, dOut, dErr, dKey, dOrder>>
    /\ UNCHANGED <<keyVars, extVars>>

\* Download steps 4-5: concatenate the decrypted chunks in index order, return the file.
D_Finish ==
    /\ dPc = "Reassembling"
    /\ dOut' = Reassemble(dSlots, dOrder)
    /\ dPc' = "Done"
    /\ UNCHANGED <<fileData, chunkSize, mode, userKey, ePc, eChunks, emitted, eTotal, rng,
                   stored, faults, dRecs, dPending, dSlots, dErr, dKey, dOrder>>
    /\ UNCHANGED <<keyVars, extVars>>

FileNext ==
    \/ E_GetKey \/ E_Chunk \/ E_EncryptChunk \/ E_Finish
    \/ S_Shuffle \/ S_Drop \/ S_Duplicate \/ S_Tamper
    \/ D_GetKey \/ D_LoadMetadata \/ D_DecryptChunk \/ D_Reassemble \/ D_Finish

\* One file operation whose rows at rest suffer damage to several chunks.
DamageNext ==
    \/ E_GetKey \/ E_Chunk \/ E_EncryptChunk \/ E_Finish
    \/ S_TamperSeveral
    \/ D_GetKey \/ D_LoadMetadata \/ D_DecryptChunk \/ D_Reassemble \/ D_Finish

----------------------------------------------------------------------------
\* Master key and user keys

Secrets == {"correct-secret", "wrong-secret"}
Users == {"u1", "u2"}
Procs == 1 .. NumProcs

SecretNum(secret) == IF secret = "correct-secret" THEN 1 ELSE 2

\* PBKDF2-HMAC-SHA256(password: ENCRYPTION_KEY, fixed salt, 100,000 iterations, 32 bytes)
derive_master_key(secret) ==
    [pbkdf2 |-> "HMAC-SHA256", password |-> secret, salt |-> "balancecloud_master_salt",
     iterations |-> 100000, length |-> 32]

\* A key encryption key derived from a built-in secret instead of the given master key.
derive_kek_default_secret(master_key, salt) ==
    [pbkdf2 |-> "HMAC-SHA256", password |-> derive_master_key("correct-secret"),
     salt |-> salt, iterations |-> 100000, length |-> 32]

\* Key encryption key: PBKDF2HMAC(application master key + salt)
derive_kek(master_key, salt) ==
    [pbkdf2 |-> "HMAC-SHA256", password |-> master_key, salt |-> salt,
     iterations |-> 100000, length |-> 32]

KekNum(kek) == SecretNum(kek.password.password) + kek.salt

\* Encrypt the user key with the derived key using AES-256-GCM; stored as
\* nonce + ciphertext (with tag), next to the salt.
encrypt_user_key(user_key, master_key, salt, nonce) ==
    LET kek == derive_kek(master_key, salt)
        ct == user_key + KekNum(kek) + nonce
    IN [key_encrypted |-> [nonce |-> nonce, ct |-> ct, tag |-> GcmTag(kek, nonce, ct)],
        salt |-> salt]

\* An unseal that returns the unmasked bytes without verifying the tag.
decrypt_user_key_unverified(key_encrypted, salt, master_key) ==
    LET kek == derive_kek(master_key, salt)
    IN [ok |-> TRUE, key |-> <<key_encrypted.ct - KekNum(kek) - key_encrypted.nonce>>]

\* Derive the key encryption key from master key and salt, decrypt the user key.
decrypt_user_key(key_encrypted, salt, master_key) ==
    LET kek == derive_kek(master_key, salt)
    IN IF key_encrypted.tag = GcmTag(kek, key_encrypted.nonce, key_encrypted.ct)
       THEN [ok |-> TRUE, key |-> <<key_encrypted.ct - KekNum(kek) - key_encrypted.nonce>>]
       ELSE [ok |-> FALSE, key |-> NoKey]

----------------------------------------------------------------------------
\* encryption_keys table

\* SELECT ... FROM encryption_keys WHERE user_id = ?
StorageLookup(table, user_id) == SelectSeq(table, LAMBDA row : row.user_id = user_id)

\* An insert into a table without the UNIQUE(user_id) constraint.
StorageInsertNoUnique(table, row) == [ok |-> TRUE, table |-> Append(table, row)]

\* An insert that overwrites the row of the user (ON CONFLICT DO UPDATE).
StorageInsertUpsert(table, row) ==
    [ok |-> TRUE,
     table |-> Append(SelectSeq(table, LAMBDA r : r.user_id # row.user_id), row)]

\* INSERT INTO encryption_keys ...; UNIQUE(user_id): one key per user
StorageInsert(table, row) ==
    IF StorageLookup(table, row.user_id) # <<>>
    THEN [ok |-> FALSE, table |-> table]
    ELSE [ok |-> TRUE, table |-> Append(table, row)]

\* A caller that reports the uniqueness violation as an error.
OnUniqueViolationRaise == "raise"

\* A uniqueness violation on insert means another caller just created the key:
\* fetch the stored row again.
OnUniqueViolation == "refetch"

NoRow == [user_id |-> "none"]
NoNew == [key |-> NoKey, row |-> NoRow]
NoResult == [status |-> "none", key |-> NoKey]
NoOrig == [row |-> NoRow, key |-> NoKey, secret |-> "none"]

----------------------------------------------------------------------------
\* Key retrieval flow (get_or_create_user_encryption_key) under concurrent callers

KeyIdle ==
    /\ keyTable = <<>>
    /\ masterSecret = "correct-secret"
    /\ kPc = [p \in Procs |-> "idle"]
    /\ kUser = [p \in Procs |-> "u1"]
    /\ kRow = [p \in Procs |-> NoRow]
    /\ kNew = [p \in Procs |-> NoNew]
    /\ kRes = [p \in Procs |-> NoResult]
    /\ kCalls = 0
    /\ kFaults = 0
    /\ kOrig = [u \in Users |-> NoOrig]
    /\ kViolation = [p \in Procs |-> FALSE]
    /\ kRng = 1

FileIdle ==
    /\ fileData = <<>>
    /\ chunkSize = 1
    /\ mode = "sequential"
    /\ userKey = NoKey
    /\ ePc = "Init"
    /\ eChunks = <<>>
    /\ emitted = <<>>
    /\ eTotal = 0
    /\ rng = 1
    /\ stored = <<>>
    /\ faults = 0
    /\ dPc = "Init"
    /\ dRecs = <<>>
    /\ dPending = {}
    /\ dSlots = <<>>
    /\ dOut = <<>>
    /\ dErr = NoError
    /\ dKey = NoKey
    /\ dOrder = <<>>

\* A service needs the encryption key of user u.
K_Call(p, u) ==
    /\ kPc[p] \in {"idle", "done"}
    /\ kCalls < MaxCalls
    /\ kCalls' = kCalls + 1
    /\ kPc' = [kPc EXCEPT ![p] = "lookup"]
    /\ kUser' = [kUser EXCEPT ![p] = u]
    /\ kRow' = [kRow EXCEPT ![p] = NoRow]
    /\ kNew' = [kNew EXCEPT ![p] = NoNew]
    /\ kRes' = [kRes EXCEPT ![p] = NoResult]
    /\ kViolation' = [kViolation EXCEPT ![p] = FALSE]
    /\ UNCHANGED <<keyTable, masterSecret, kFaults, kOrig, kRng>>
    /\ UNCHANGED <<fileVars, extVars>>

\* Step 2: query encryption_keys WHERE user_id = ?; found or not found.
K_Lookup(p) ==
    /\ kPc[p] = "lookup"
    /\ LET rows == StorageLookup(keyTable, kUser[p])
       IN IF rows # <<>>
          THEN /\ kRow' = [kRow EXCEPT ![p] = rows[1]]
               /\ kPc' = [kPc EXCEPT ![p] = "unseal"]
          ELSE /\ kRow' = kRow
               /\ kPc' = [kPc EXCEPT ![p] = "create"]
    /\ UNCHANGED <<keyTable, masterSecret, kUser, kNew, kRes, kCalls, kFaults, kOrig,
                   kViolation, kRng>>
    /\ UNCHANGED <<fileVars, extVars>>

\* Step 3: decrypt key_encrypted with the master key and return the user key; a tag
\* that does not verify ends the call with IntegrityError.
K_Unseal(p) ==
    /\ kPc[p] = "unseal"
    /\ LET res == decrypt_user_key(kRow[p].key_encrypted, kRow[p].salt,
                                   derive_master_key(masterSecret))
       IN kRes' = [kRes EXCEPT ![p] =
                      IF res.ok THEN [status |-> "ok", key |-> res.key]
                      ELSE [status |-> "IntegrityError", key |-> NoKey]]
    /\ kPc' = [kPc EXCEPT ![p] = "done"]
    /\ UNCHANGED <<keyTable, masterSecret, kUser, kRow, kNew, kCalls, kFaults, kOrig,
                   kViolation, kRng>>
    /\ UNCHANGED <<fileVars, extVars>>

\* Step 4a: generate a new user key (32 random bytes), a random salt and a random
\* nonce; encrypt the key with the master key.
K_Create(p) ==
    /\ kPc[p] = "create"
    /\ LET sealed == encrypt_user_key(kRng, derive_master_key(masterSecret),
                                      kRng + 1, kRng + 2)
       IN kNew' = [kNew EXCEPT ![p] =
                      [key |-> <<kRng>>,
                       row |-> [user_id |-> kUser[p],
                                key_encrypted |-> sealed.key_encrypted,
                                salt |-> sealed.salt]]]
    /\ kRng' = kRng + 3
    /\ kPc' = [kPc EXCEPT ![p] = "insert"]
    /\ UNCHANGED <<keyTable, masterSecret, kUser, kRow, kRes, kCalls, kFaults, kOrig,
                   kViolation>>
    /\ UNCHANGED <<fileVars, extVars>>

\* Step 4b: store the row in encryption_keys and return the new user key; on a
\* uniqueness violation the stored row is fetched again.
K_Insert(p) ==
    /\ kPc[p] = "insert"
    /\ LET ins == StorageInsert(keyTable, kNew[p].row)
       IN IF ins.ok
          THEN /\ keyTable' = ins.table
               /\ kRes' = [kRes EXCEPT ![p] = [status |-> "ok", key |-> kNew[p].key]]
               /\ kOrig' = [kOrig EXCEPT ![kUser[p]] =
                              [row |-> kNew[p].row, key |-> kNew[p].key,
                               secret |-> masterSecret]]
               /\ kPc' = [kPc EXCEPT ![p] = "done"]
               /\ kViolation' = kViolation
          ELSE /\ keyTable' = keyTable
               /\ kOrig' = kOrig
               /\ kViolation' = [kViolation EXCEPT ![p] = TRUE]
               /\ IF OnUniqueViolation = "refetch"
                  THEN /\ kPc' = [kPc EXCEPT ![p] = "lookup"]
                       /\ kRes' = kRes
                  ELSE /\ kPc' = [kPc EXCEPT ![p] = "done"]
                       /\ kRes' = [kRes EXCEPT ![p] =
                                     [status |-> "UniqueViolation", key |-> NoKey]]
    /\ UNCHANGED <<masterSecret, kUser, kRow, kNew, kCalls, kFaults, kRng>>
    /\ UNCHANGED <<fileVars, extVars>>

\* The stored blob of a user is modified at rest: its ciphertext or its tag.
K_TamperBlob(u) ==
    /\ kFaults < MaxKeyFaults
    /\ \E i \in 1 .. Len(keyTable), tagOnly \in BOOLEAN :
          /\ keyTable[i].user_id = u
          /\ keyTable' = [keyTable EXCEPT ![i].key_encrypted =
                            IF tagOnly THEN [@ EXCEPT !.tag.flipped = ~@]
                            ELSE [@ EXCEPT !.ct = @ + 1]]
    /\ kFaults' = kFaults + 1
    /\ UNCHANGED <<masterSecret, kPc, kUser, kRow, kNew, kRes, kCalls, kOrig,
                   kViolation, kRng>>
    /\ UNCHANGED <<fileVars, extVars>>

\* The process is restarted with another ENCRYPTION_KEY.
K_ChangeSecret ==
    /\ kFaults < MaxKeyFaults
    /\ \A p \in Procs : kPc[p] \in {"idle", "done"}
    /\ \E s \in Secrets \ {masterSecret} : masterSecret' = s
    /\ kFaults' = kFaults + 1
    /\ UNCHANGED <<keyTable, kPc, kUser, kRow, kNew, kRes, kCalls, kOrig, kViolation, kRng>>
    /\ UNCHANGED <<fileVars, extVars>>

KeyNext ==
    \/ \E p \in Procs, u \in Users : K_Call(p, u)
    \/ \E p \in Procs : K_Lookup(p)
    \/ \E p \in Procs : K_Unseal(p)
    \/ \E p \in Procs : K_Create(p)
    \/ \E p \in Procs : K_Insert(p)
    \/ \E u \in Users : K_TamperBlob(u)
    \/ K_ChangeSecret

----------------------------------------------------------------------------
\* Chunk encryptions of one user: several files, several chunks, the same chunk
\* encrypted again (a retried upload step, or changed content)

FileIds == {<<"f">>, <<"f", "1">>, <<"f", ":", "1">>}
ChunkIndices == {0, 1, 11}
ChunkData == BoundedSeq(Byte, 1) \ {<<>>}

\* Upload step 2: get or create the user encryption key.
Enc_GetKey ==
    /\ cUserKey = NoKey
    /\ cUserKey' = <<cRng>>
    /\ cRng' = cRng + 1
    /\ UNCHANGED cLog
    /\ UNCHANGED <<fileVars, keyVars, dTrace, parVars, webVars>>

\* Upload step 4 for one chunk: derive the chunk key, generate a random IV, encrypt,
\* compute the checksum, produce the row of storage_chunks.
Enc_Chunk(file_id, chunk_index, chunk_data) ==
    /\ cUserKey # NoKey
    /\ Len(cLog) < MaxEncCalls
    /\ LET chunk_key == derive_chunk_key(cUserKey[1], file_id, chunk_index)
           enc == encrypt_file_chunk(chunk_data, chunk_key, generate_iv(cRng))
       IN cLog' = Append(cLog, [chunk_data |-> chunk_data, chunk_key |-> chunk_key,
                                row |-> ChunkRecord(file_id, chunk_index, chunk_data, enc)])
    /\ cRng' = cRng + 1
    /\ UNCHANGED cUserKey
    /\ UNCHANGED <<fileVars, keyVars, dTrace, parVars, webVars>>

CipherNext ==
    \/ Enc_GetKey
    \/ \E file_id \in FileIds, chunk_index \in ChunkIndices, chunk_data \in ChunkData :
          Enc_Chunk(file_id, chunk_index, chunk_data)

----------------------------------------------------------------------------
\* Encrypt flow with chunk fan-out: the chunk operations of upload step 4 run on a
\* bounded worker pool and complete in any order; the caller may cancel.

\* Concurrent chunk operations: one in sequential streaming mode, the pool size in
\* parallel mode.
PoolSize(m) == IF m = "sequential" THEN 1 ELSE MaxWorkers

\* The chunk operation handed to a worker: the index is fixed here, before dispatch.
DispatchTask(position, chunks) ==
    [chunk_index |-> ChunkIndexAt(position), chunk_data |-> chunks[position]]

\* A dispatcher that keeps dispatching after the caller cancelled.
MayDispatchIgnoringCancel(cancelled, dispatched, total, running, m) ==
    /\ dispatched < total
    /\ running < PoolSize(m)

\* A new chunk is dispatched while chunks are left, a worker is free and the caller
\* has not cancelled.
MayDispatch(cancelled, dispatched, total, running, m) ==
    /\ ~cancelled
    /\ dispatched < total
    /\ running < PoolSize(m)

P_Dispatch ==
    /\ ePc \in {"Chunking", "EncryptingChunk"}
    /\ MayDispatch(pCancelled, pNext, Len(eChunks), Cardinality(pInFlight), mode)
    /\ pInFlight' = pInFlight \cup {DispatchTask(pNext + 1, eChunks)}
    /\ pNext' = pNext + 1
    /\ ePc' = "EncryptingChunk"
    /\ UNCHANGED <<pResults, pCancelled, pAbandoned>>
    /\ UNCHANGED <<fileData, chunkSize, mode, userKey, eChunks, emitted, eTotal, rng, stored,
                   faults, dPc, dRecs, dPending, dSlots, dOut, dErr, dKey, dOrder>>
    /\ UNCHANGED <<keyVars, dTrace, cipherVars, webVars>>

\* A worker finishes its chunk: upload step 4 (derive the chunk key, random IV,
\* encrypt, checksum) for the index the task carries.
P_Complete(t) ==
    /\ t \in pInFlight
    /\ LET chunk_key == derive_chunk_key(userKey[1], FileId, t.chunk_index)
           enc == encrypt_file_chunk(t.chunk_data, chunk_key, generate_iv(rng))
       IN pResults' = Append(pResults, ChunkRecord(FileId, t.chunk_index, t.chunk_data, enc))
    /\ rng' = rng + 1
    /\ pInFlight' = pInFlight \ {t}
    /\ UNCHANGED <<pNext, pCancelled, pAbandoned>>
    /\ UNCHANGED <<fileData, chunkSize, mode, userKey, ePc, eChunks, emitted, eTotal, stored,
                   faults, dPc, dRecs, dPending, dSlots, dOut, dErr, dKey, dOrder>>
    /\ UNCHANGED <<keyVars, dTrace, cipherVars, webVars>>

\* The caller cancels the file operation in flight.
P_Cancel ==
    /\ ePc \in {"KeyReady", "Chunking", "EncryptingChunk"}
    /\ ~pCancelled
    /\ pCancelled' = TRUE
    /\ UNCHANGED <<pNext, pInFlight, pResults, pAbandoned>>
    /\ UNCHANGED fileVars
    /\ UNCHANGED <<keyVars, dTrace, cipherVars, webVars>>

\* After cancellation a chunk operation in flight is given up instead of completed.
P_Abandon(t) ==
    /\ pCancelled
    /\ t \in pInFlight
    /\ pInFlight' = pInFlight \ {t}
    /\ pAbandoned' = pAbandoned \cup {t.chunk_index}
    /\ UNCHANGED <<pNext, pResults, pCancelled>>
    /\ UNCHANGED fileVars
    /\ UNCHANGED <<keyVars, dTrace, cipherVars, webVars>>

\* The cancelled operation ends once no chunk operation is in flight; no list is
\* returned.
P_Terminate ==
    /\ pCancelled
    /\ ePc \in {"KeyReady", "Chunking", "EncryptingChunk"}
    /\ pInFlight = {}
    /\ ePc' = "Cancelled"
    /\ UNCHANGED parVars
    /\ UNCHANGED <<fileData, chunkSize, mode, userKey, eChunks, emitted, eTotal, rng, stored,
                   faults, dPc, dRecs, dPending, dSlots, dOut, dErr, dKey, dOrder>>
    /\ UNCHANGED <<keyVars, dTrace, cipherVars, webVars>>

\* Every chunk is encrypted: return the chunk metadata ordered by index and the total
\* size.
P_Finish ==
    /\ ePc \in {"Chunking", "EncryptingChunk"}
    /\ ~pCancelled
    /\ pNext = Len(eChunks)
    /\ pInFlight = {}
    /\ emitted' = OrderByChunkIndex(pResults)
    /\ eTotal' = SumSeq([i \in 1 .. Len(pResults) |-> pResults[i].chunk_size])
    /\ stored' = OrderByChunkIndex(pResults)
    /\ ePc' = "Done"
    /\ UNCHANGED parVars
    /\ UNCHANGED <<fileData, chunkSize, mode, userKey, eChunks, rng, faults,
                   dPc, dRecs, dPending, dSlots, dOut, dErr, dKey, dOrder>>
    /\ UNCHANGED <<keyVars, dTrace, cipherVars, webVars>>

\* Upload step 3, unless the caller cancelled before.
P_Chunk == ~pCancelled /\ E_Chunk

P_Settle == \E t \in pInFlight : P_Complete(t) \/ P_Abandon(t)

ParNext ==
    \/ E_GetKey
    \/ P_Chunk
    \/ P_Dispatch
    \/ \E t \in pInFlight : P_Complete(t)
    \/ \E t \in pInFlight : P_Abandon(t)
    \/ P_Cancel
    \/ P_Terminate
    \/ P_Finish

----------------------------------------------------------------------------
\* Frontend: connecting a cloud account.  CloudAccountsPage.handleConnect
\* asks the backend for the provider's OAuth URL, keeps the returned state in
\* sessionStorage and sends the browser to the provider; the provider sends it
\* back to the redirect URI, where OAuthCallbackPage.handleCallback runs.

MaxConnects == 3

Null == "null"
Undefined == "undefined"
Providers == {"google_drive", "onedrive"}

\* `${window.location.origin}/oauth/callback`: the path of the redirect URI,
\* which is the one route of App that renders OAuthCallbackPage.
OAuthCallbackPath ==
    <<"/", "o", "a", "u", "t", "h", "/", "c", "a", "l", "l", "b", "a", "c", "k">>
CloudAccountsPath == <<"/", "c", "l", "o", "u", "d", "-", "a", "c", "c", "o", "u", "n", "t", "s">>
ProviderSite == <<"provider">>
Google == <<"g", "o", "o", "g", "l", "e">>

\* String.prototype.includes
includes(s, sub) ==
    \E i \in 1 .. (Len(s) - Len(sub) + 1) : SubSeq(s, i, i + Len(sub) - 1) = sub

\* The provider the callback page works for.
provider_of_pathname(pathname) ==
    IF includes(pathname, Google) THEN "google_drive" ELSE "onedrive"

\* The state parameter the backend generates for one connect request.
random_state(random) == "state_" \o ToString(random)

NoLocation == [pathname |-> <<>>, code |-> Null, state |-> Null, error |-> Null]
NoPending == [provider |-> Null, state |-> Null]

\* cloudAccountsStore.addAccount
addAccount(list, account) ==
    Append(SelectSeq(list, LAMBDA a : a.id # account.id), account)

\* The answer of GET /cloud-accounts/callback/{provider}: it carries an
\* account_id and no id.
OAuthCallbackResponse(provider, state) ==
    [id |-> Undefined, account_id |-> state, provider |-> provider,
     is_connected |-> TRUE]

OAuthIdle ==
    /\ oPage = CloudAccountsPath
    /\ sessionStorage = [p \in Providers |-> Null]
    /\ oLocation = NoLocation
    /\ oPending = NoPending
    /\ oCalls = <<>>
    /\ accounts = <<>>
    /\ cloudError = Null
    /\ oRng = 1


\* handleConnect(provider): initiateOAuth answers with an OAuth URL and a
\* fresh state, or fails.
handleConnect(provider) ==
    /\ oPage = CloudAccountsPath
    /\ oRng <= MaxConnects
    /\ oRng' = oRng + 1
    /\ \/ /\ sessionStorage' = [sessionStorage EXCEPT ![provider] = random_state(oRng)]
          /\ oPending' = [provider |-> provider, state |-> random_state(oRng)]
          /\ oPage' = ProviderSite
          /\ UNCHANGED cloudError
       \/ /\ cloudError' = "Failed to initiate OAuth flow"
          /\ UNCHANGED <<sessionStorage, oPending, oPage>>
    /\ UNCHANGED <<oLocation, oCalls, accounts>>
    /\ UNCHANGED <<engineVars, fsVars, authVars>>

\* The user authorizes or refuses on the provider's site, and the provider
\* redirects the browser to the redirect URI with the state it was given.
ProviderRedirect ==
    /\ oPage = ProviderSite
    /\ oPage' = OAuthCallbackPath
    /\ \/ oLocation' = [pathname |-> OAuthCallbackPath, code |-> "code_" \o oPending.state,
                        state |-> oPending.state, error |-> Null]
       \/ oLocation' = [pathname |-> OAuthCallbackPath, code |-> Null,
                        state |-> oPending.state, error |-> "access_denied"]
    /\ UNCHANGED <<sessionStorage, oPending, oCalls, accounts, cloudError, oRng>>
    /\ UNCHANGED <<engineVars, fsVars, authVars>>

\* OAuthCallbackPage.handleCallback; every branch ends on /cloud-accounts.
handleCallback ==
    /\ oPage = OAuthCallbackPath
    /\ oPage' = CloudAccountsPath
    /\ LET code == oLocation.code
           state == oLocation.state
           error == oLocation.error
           provider == provider_of_pathname(oLocation.pathname)
           storedState == sessionStorage[provider]
       IN  IF error # Null
           THEN /\ cloudError' = "OAuth error"
                /\ UNCHANGED <<sessionStorage, oCalls, accounts>>
           ELSE IF code = Null \/ state = Null
           THEN /\ cloudError' = "Missing OAuth parameters"
                /\ UNCHANGED <<sessionStorage, oCalls, accounts>>
           ELSE IF state # storedState
           THEN /\ cloudError' = "Invalid OAuth state"
                /\ UNCHANGED <<sessionStorage, oCalls, accounts>>
           ELSE \E ok \in BOOLEAN :
                /\ oCalls' = Append(oCalls, [provider |-> provider, code |-> code,
                                             state |-> state, ok |-> ok])
                /\ IF ok
                   THEN /\ accounts' = addAccount(accounts,
                                                  OAuthCallbackResponse(provider, state))
                        /\ sessionStorage' = [sessionStorage EXCEPT ![provider] = Null]
                        /\ UNCHANGED cloudError
                   ELSE /\ cloudError' = "Failed to complete OAuth flow"
                        /\ UNCHANGED <<sessionStorage, accounts>>
    /\ UNCHANGED <<oLocation, oPending, oRng>>
    /\ UNCHANGED <<engineVars, fsVars, authVars>>

OAuthNext ==
    \/ \E provider \in Providers : handleConnect(provider)
    \/ ProviderRedirect
    \/ handleCallback

----------------------------------------------------------------------------
\* Frontend: the files store (useFilesStore) over apiClient and fileService.
\* JavaScript runs one callback at a time: a call runs to its first await, and
\* each continuation after an await runs as one step.

MaxPageFetches == 2
MaxUploads == 2
MaxDeletes == 1

\* The answers of the backend to a request of the files page.  A 401 answer
\* sends the browser to /login and ends the page.
FileStatuses == {200, 429, 500}

StorageUsageUrl == <<"files", "storage", "usage">>
UploadUrl == <<"files", "upload">>
FilesUrl == <<"files">>
FileUrl == <<"files", "fileId">>

\* apiClient's response interceptor: a 2xx answer is passed on; a 429 answer to
\* a URL that includes '/storage/usage' resolves with { data: null, status: 429 };
\* every other error is rejected, and a 401 removes the token from localStorage.
response_interceptor(status, url, data) ==
    IF status = 200
    THEN [resolved |-> TRUE, data |-> data, remove_token |-> FALSE]
    ELSE IF status = 429 /\ includes(url, <<"storage", "usage">>)
    THEN [resolved |-> TRUE, data |-> Null, remove_token |-> FALSE]
    ELSE [resolved |-> FALSE, data |-> Null, remove_token |-> (status = 401)]

\* The StorageUsageResponse of the backend.
usage_of(n) == "usage_" \o ToString(n)

\* A fetchStorageUsage that sends its request whatever the flag says.
fetchStorageUsageUnguarded(store) ==
    [store |-> [store EXCEPT !.isFetchingStorageUsage = TRUE], request |-> TRUE]

\* fetchStorageUsage up to its await: return if a fetch is in flight, else set
\* the flag and send the request.
fetchStorageUsage(store) ==
    IF store.isFetchingStorageUsage
    THEN [store |-> store, request |-> FALSE]
    ELSE [store |-> [store EXCEPT !.isFetchingStorageUsage = TRUE], request |-> TRUE]

\* fetchFiles up to its await.
fetchFiles(store) == [store EXCEPT !.isLoading = TRUE, !.error = Null]

\* fetchFiles after its await: the answer of listFiles.
fetchFilesSettled(store, status, listed) ==
    LET r == response_interceptor(status, FilesUrl, listed)
    IN IF r.resolved
       THEN [store EXCEPT !.files = r.data, !.isLoading = FALSE, !.error = Null]
       ELSE [store EXCEPT !.isLoading = FALSE, !.error = "Failed to fetch files"]

FilesIdle ==
    /\ filesStore = [files |-> 0, storageUsage |-> Null, isLoading |-> FALSE,
                     isUploading |-> FALSE, uploadProgress |-> 0, error |-> Null,
                     isFetchingStorageUsage |-> FALSE]
    /\ serverFiles = 0
    /\ usageInFlight = 0
    /\ usageSkipped = 0
    /\ refreshTimers = 0
    /\ progressIntervals = 0
    /\ uploadPc = "idle"
    /\ deletePc = "idle"
    /\ fsCalls = [page |-> 0, upload |-> 0, delete |-> 0]


\* One call of fetchStorageUsage.
CallFetchStorageUsage ==
    LET c == fetchStorageUsage(filesStore)
    IN /\ filesStore' = c.store
       /\ usageInFlight' = IF c.request THEN usageInFlight + 1 ELSE usageInFlight
       /\ usageSkipped' = IF c.request THEN usageSkipped ELSE usageSkipped + 1

\* A page effect calls fetchStorageUsage.
PageEffect ==
    /\ fsCalls.page < MaxPageFetches
    /\ fsCalls' = [fsCalls EXCEPT !.page = @ + 1]
    /\ CallFetchStorageUsage
    /\ UNCHANGED <<serverFiles, refreshTimers, progressIntervals, uploadPc, deletePc>>
    /\ UNCHANGED <<engineVars, oauthVars, authVars>>

\* The delayed refresh set up by uploadFile or deleteFile fires.
RefreshTimerFires ==
    /\ refreshTimers > 0
    /\ refreshTimers' = refreshTimers - 1
    /\ CallFetchStorageUsage
    /\ UNCHANGED <<serverFiles, progressIntervals, uploadPc, deletePc, fsCalls>>
    /\ UNCHANGED <<engineVars, oauthVars, authVars>>

\* fetchStorageUsage after its await: the answer of getStorageUsage.
StorageUsageSettles(status) ==
    /\ usageInFlight > 0
    /\ usageInFlight' = usageInFlight - 1
    /\ LET r == response_interceptor(status, StorageUsageUrl, usage_of(serverFiles))
       IN IF r.resolved
          THEN filesStore' = [filesStore EXCEPT !.storageUsage = r.data,
                                                !.isFetchingStorageUsage = FALSE]
          ELSE filesStore' = [filesStore EXCEPT !.isFetchingStorageUsage = FALSE]
    /\ UNCHANGED <<serverFiles, usageSkipped, refreshTimers, progressIntervals, uploadPc,
                   deletePc, fsCalls>>
    /\ UNCHANGED <<engineVars, oauthVars, authVars>>

\* uploadFile up to its first await: the progress timer is started and the
\* upload request sent.
uploadFile ==
    /\ uploadPc = "idle"
    /\ fsCalls.upload < MaxUploads
    /\ fsCalls' = [fsCalls EXCEPT !.upload = @ + 1]
    /\ filesStore' = [filesStore EXCEPT !.isUploading = TRUE, !.uploadProgress = 0,
                                        !.error = Null]
    /\ progressIntervals' = progressIntervals + 1
    /\ uploadPc' = "uploadFile"
    /\ UNCHANGED <<serverFiles, usageInFlight, usageSkipped, refreshTimers, deletePc>>
    /\ UNCHANGED <<engineVars, oauthVars, authVars>>

\* The callback of a progress timer.
ProgressTick ==
    /\ progressIntervals > 0
    /\ filesStore' = [filesStore EXCEPT !.uploadProgress = Min({@ + 10, 90})]
    /\ UNCHANGED <<serverFiles, usageInFlight, usageSkipped, refreshTimers,
                   progressIntervals, uploadPc, deletePc, fsCalls>>
    /\ UNCHANGED <<engineVars, oauthVars, authVars>>

\* uploadFile after fileService.uploadFile: on success the timer is cleared, the
\* progress set to 100 and fetchFiles called; on failure the catch block runs.
UploadSettles(status) ==
    /\ uploadPc = "uploadFile"
    /\ LET r == response_interceptor(status, UploadUrl, "file")
       IN IF r.resolved
          THEN /\ progressIntervals' = progressIntervals - 1
               /\ filesStore' = fetchFiles([filesStore EXCEPT !.uploadProgress = 100])
               /\ serverFiles' = serverFiles + 1
               /\ uploadPc' = "fetchFiles"
          ELSE /\ filesStore' = [filesStore EXCEPT !.isUploading = FALSE,
                                                   !.uploadProgress = 0,
                                                   !.error = "Upload failed"]
               /\ uploadPc' = "idle"
               /\ UNCHANGED <<progressIntervals, serverFiles>>
    /\ UNCHANGED <<usageInFlight, usageSkipped, refreshTimers, deletePc, fsCalls>>
    /\ UNCHANGED <<engineVars, oauthVars, authVars>>

\* uploadFile after fetchFiles: the delayed refresh is set up and the upload
\* state reset.
UploadRefreshed(status) ==
    /\ uploadPc = "fetchFiles"
    /\ filesStore' = [fetchFilesSettled(filesStore, status, serverFiles)
                        EXCEPT !.isUploading = FALSE, !.uploadProgress = 0, !.error = Null]
    /\ refreshTimers' = refreshTimers + 1
    /\ uploadPc' = "idle"
    /\ UNCHANGED <<serverFiles, usageInFlight, usageSkipped, progressIntervals, deletePc,
                   fsCalls>>
    /\ UNCHANGED <<engineVars, oauthVars, authVars>>

\* deleteFile up to its first await, for a file the backend holds.
deleteFile ==
    /\ deletePc = "idle"
    /\ serverFiles > 0
    /\ fsCalls.delete < MaxDeletes
    /\ fsCalls' = [fsCalls EXCEPT !.delete = @ + 1]
    /\ filesStore' = [filesStore EXCEPT !.isLoading = TRUE, !.error = Null]
    /\ deletePc' = "deleteFile"
    /\ UNCHANGED <<serverFiles, usageInFlight, usageSkipped, refreshTimers,
                   progressIntervals, uploadPc>>
    /\ UNCHANGED <<engineVars, oauthVars, authVars>>

\* deleteFile after fileService.deleteFile.
DeleteSettles(status) ==
    /\ deletePc = "deleteFile"
    /\ LET r == response_interceptor(status, FileUrl, Null)
       IN IF r.resolved
          THEN /\ filesStore' = fetchFiles(filesStore)
               /\ serverFiles' = serverFiles - 1
               /\ deletePc' = "fetchFiles"
          ELSE /\ filesStore' = [filesStore EXCEPT !.isLoading = FALSE,
                                                   !.error = "Failed to delete file"]
               /\ deletePc' = "idle"
               /\ UNCHANGED serverFiles
    /\ UNCHANGED <<usageInFlight, usageSkipped, refreshTimers, progressIntervals, uploadPc,
                   fsCalls>>
    /\ UNCHANGED <<engineVars, oauthVars, authVars>>

\* deleteFile after fetchFiles: the delayed refresh is set up.
DeleteRefreshed(status) ==
    /\ deletePc = "fetchFiles"
    /\ filesStore' = [fetchFilesSettled(filesStore, status, serverFiles)
                        EXCEPT !.isLoading = FALSE, !.error = Null]
    /\ refreshTimers' = refreshTimers + 1
    /\ deletePc' = "idle"
    /\ UNCHANGED <<serverFiles, usageInFlight, usageSkipped, progressIntervals, uploadPc,
                   fsCalls>>
    /\ UNCHANGED <<engineVars, oauthVars, authVars>>

FilesNext ==
    \/ PageEffect
    \/ RefreshTimerFires
    \/ \E status \in FileStatuses : StorageUsageSettles(status)
    \/ uploadFile
    \/ ProgressTick
    \/ \E status \in FileStatuses : UploadSettles(status)
    \/ \E status \in FileStatuses : UploadRefreshed(status)
    \/ deleteFile
    \/ \E status \in FileStatuses : DeleteSettles(status)
    \/ \E status \in FileStatuses : DeleteRefreshed(status)

----------------------------------------------------------------------------
\* Frontend: the authentication store (useAuthStore) over apiClient and
\* authService, on the login and register pages.

MaxAuthCalls == 4

AuthStatuses == {200, 401, 500}

LoginUrl == <<"auth", "login">>
RegisterUrl == <<"auth", "register">>
MeUrl == <<"auth", "me">>

AuthUrl(op) == IF op = "login" THEN LoginUrl ELSE RegisterUrl

\* The access token of the AuthResponse to the n-th call.
access_token(n) == "token_" \o ToString(n)

\* apiClient's request interceptor: the Authorization header of a request.
request_interceptor(item) == IF item # Null THEN "Bearer " \o item ELSE Null

NoAuthCall == [op |-> Null, step |-> Null, token |-> Null, Authorization |-> Null]

\* The catch block of login / register.
authFailed(store, op) ==
    [store EXCEPT !.isLoading = FALSE,
                  !.error = IF op = "login" THEN "Incorrect email or password"
                            ELSE "Registration failed",
                  !.isAuthenticated = FALSE, !.token = Null, !.user = Null]

AuthIdle ==
    /\ authStore = [user |-> Null, token |-> Null, isAuthenticated |-> FALSE,
                    isLoading |-> FALSE, error |-> Null]
    /\ localStorage = Null
    /\ authPending = NoAuthCall
    /\ authOutcome = "none"
    /\ authCalls = 0

WebIdle == OAuthIdle /\ FilesIdle /\ AuthIdle

\* login / register up to the first await: the token request is sent.
authCall(op) ==
    /\ authPending = NoAuthCall
    /\ authCalls < MaxAuthCalls
    /\ authCalls' = authCalls + 1
    /\ authStore' = [authStore EXCEPT !.isLoading = TRUE, !.error = Null]
    /\ authPending' = [op |-> op, step |-> "token", token |-> Null,
                       Authorization |-> request_interceptor(localStorage)]
    /\ authOutcome' = "none"
    /\ UNCHANGED localStorage
    /\ UNCHANGED <<engineVars, oauthVars, fsVars>>

login == authCall("login")

register == authCall("register")

\* login / register after authService.login / register: the token is put into
\* localStorage and the user requested, or the catch block runs.
TokenSettles(status) ==
    /\ authPending.step = "token"
    /\ LET r == response_interceptor(status, AuthUrl(authPending.op), access_token(authCalls))
       IN IF r.resolved
          THEN /\ localStorage' = r.data
               /\ authPending' = [authPending EXCEPT !.step = "user", !.token = r.data,
                                     !.Authorization = request_interceptor(r.data)]
               /\ UNCHANGED <<authStore, authOutcome>>
          ELSE /\ localStorage' = IF r.remove_token THEN Null ELSE localStorage
               /\ authStore' = authFailed(authStore, authPending.op)
               /\ authPending' = NoAuthCall
               /\ authOutcome' = "failed"
    /\ UNCHANGED authCalls
    /\ UNCHANGED <<engineVars, oauthVars, fsVars>>

\* login / register after authService.getCurrentUser.
UserSettles(status) ==
    /\ authPending.step = "user"
    /\ LET r == response_interceptor(status, MeUrl, "user")
       IN IF r.resolved
          THEN /\ authStore' = [token |-> authPending.token, user |-> r.data,
                                isAuthenticated |-> TRUE, isLoading |-> FALSE,
                                error |-> Null]
               /\ authOutcome' = "ok"
               /\ UNCHANGED localStorage
          ELSE /\ localStorage' = IF r.remove_token THEN Null ELSE localStorage
               /\ authStore' = authFailed(authStore, authPending.op)
               /\ authOutcome' = "failed"
    /\ authPending' = NoAuthCall
    /\ UNCHANGED authCalls
    /\ UNCHANGED <<engineVars, oauthVars, fsVars>>

\* fetchCurrentUser up to its await.
fetchCurrentUser ==
    /\ authPending = NoAuthCall
    /\ authCalls < MaxAuthCalls
    /\ authCalls' = authCalls + 1
    /\ authStore' = [authStore EXCEPT !.isLoading = TRUE]
    /\ authPending' = [op |-> "fetchCurrentUser", step |-> "me", token |-> Null,
                       Authorization |-> request_interceptor(localStorage)]
    /\ authOutcome' = "none"
    /\ UNCHANGED localStorage
    /\ UNCHANGED <<engineVars, oauthVars, fsVars>>

\* fetchCurrentUser after authService.getCurrentUser; the backend answers 200
\* only to a request that carries a token.
CurrentUserSettles(status) ==
    /\ authPending.step = "me"
    /\ status = 200 => authPending.Authorization # Null
    /\ LET r == response_interceptor(status, MeUrl, "user")
           token == localStorage
       IN IF r.resolved
          THEN /\ authStore' = [user |-> r.data, token |-> token,
                                isAuthenticated |-> (token # Null), isLoading |-> FALSE,
                                error |-> Null]
               /\ UNCHANGED localStorage
          ELSE /\ localStorage' = IF r.remove_token THEN Null ELSE localStorage
               /\ authStore' = [authStore EXCEPT !.isLoading = FALSE,
                                                 !.isAuthenticated = FALSE,
                                                 !.user = Null, !.token = Null]
    /\ authPending' = NoAuthCall
    /\ UNCHANGED <<authOutcome, authCalls>>
    /\ UNCHANGED <<engineVars, oauthVars, fsVars>>

logout ==
    /\ authPending = NoAuthCall
    /\ authStore.isAuthenticated
    /\ localStorage' = Null
    /\ authStore' = [authStore EXCEPT !.user = Null, !.token = Null,
                                      !.isAuthenticated = FALSE, !.error = Null]
    /\ authOutcome' = "none"
    /\ UNCHANGED <<authPending, authCalls>>
    /\ UNCHANGED <<engineVars, oauthVars, fsVars>>

AuthNext ==
    \/ login
    \/ register
    \/ \E status \in AuthStatuses : TokenSettles(status)
    \/ \E status \in AuthStatuses : UserSettles(status)
    \/ fetchCurrentUser
    \/ \E status \in AuthStatuses : CurrentUserSettles(status)
    \/ logout

----------------------------------------------------------------------------
\* Specifications

ExtIdle ==
    /\ dTrace = <<>>
    /\ cUserKey = NoKey
    /\ cLog = <<>>
    /\ cRng = 1
    /\ pNext = 0
    /\ pInFlight = {}
    /\ pResults = <<>>
    /\ pCancelled = FALSE
    /\ pAbandoned = {}
    /\ WebIdle

Init == FileInit /\ KeyIdle /\ ExtIdle
Next == FileNext
Spec == Init /\ [][Next]_vars

KeyInit == FileIdle /\ KeyIdle /\ ExtIdle
SpecKeys == KeyInit /\ [][KeyNext]_vars

SpecCipher == KeyInit /\ [][CipherNext]_vars

SpecOAuth == KeyInit /\ [][OAuthNext]_vars

SpecFiles == KeyInit /\ [][FilesNext]_vars

SpecAuth == KeyInit /\ [][AuthNext]_vars

SpecDamage == Init /\ [][DamageNext]_vars

\* A worker that was started runs on until its chunk operation is over, and a
\* cancelled operation whose workers are all over is ended.
SpecParallel ==
    /\ Init
    /\ [][ParNext]_vars
    /\ WF_vars(P_Settle)
    /\ WF_vars(P_Terminate)

----------------------------------------------------------------------------
\* Properties of the upload / download flows (checked under Spec)

FlowNext ==
    \/ E_GetKey \/ E_Chunk \/ E_EncryptChunk \/ E_Finish
    \/ D_GetKey \/ D_LoadMetadata \/ D_DecryptChunk \/ D_Reassemble \/ D_Finish

IndicesOf(records) == [i \in 1 .. Len(records) |-> records[i].chunk_index]
IndexSet(records) == {records[i].chunk_index : i \in 1 .. Len(records)}

\* C1: round trip.  With the emitted records supplied as emitted, under the same user
\* key and file id, the decrypt flow never fails, keeps running until Done, and in
\* Done returns exactly the bytes given to the encrypt flow (empty input, exact
\* multiples of the chunk size and one byte more than the chunk size included).
C1_RoundTrip ==
    faults = 0 =>
        /\ dPc # "Failed"
        /\ dPc # "Done" => ENABLED FlowNext
        /\ dPc = "Done" => dOut = fileData

C1_Witness ==
    /\ dPc = "Done"
    /\ faults = 0
    /\ Len(fileData) = chunkSize + 1
    /\ dOut = fileData

\* A stored record whose ciphertext_with_tag differs from the emitted one of its index.
Altered(r) ==
    /\ r.chunk_index + 1 \in 1 .. Len(emitted)
    /\ r.data # emitted[r.chunk_index + 1].data

SomeAltered == \E i \in 1 .. Len(stored) : Altered(stored[i])

\* C2: no tampered ciphertext is accepted.  When the ciphertext_with_tag of a supplied
\* record was altered (checksum untouched or recomputed), the decrypt flow never
\* reaches Reassembling or Done, hands no byte to the caller, runs until it fails, and
\* - the list being otherwise the emitted one - fails with ChunkCorruptedError or
\* ChunkAuthenticationError.
C2_NoTamperedAccepted ==
    (ePc = "Done" /\ SomeAltered) =>
        /\ dPc \notin {"Reassembling", "Done"}
        /\ dOut = <<>>
        /\ dPc # "Failed" => ENABLED FlowNext
        /\ (dPc = "Failed" /\ IndicesOf(stored) = IndicesOf(emitted)) =>
              dErr.class \in {"ChunkCorruptedError", "ChunkAuthenticationError"}

C2_Witness ==
    /\ SomeAltered
    /\ \E i \in 1 .. Len(stored) :
          Altered(stored[i]) /\ verify_checksum(stored[i].data, stored[i].checksum)
    /\ dPc = "Failed"
    /\ dErr.class = "ChunkAuthenticationError"

\* C6: chunker split.  chunk_file yields ceil(L/c) segments, all but the last of c
\* bytes, the last of L mod c bytes (c when L is a non-zero multiple of c), none
\* empty, and their concatenation is the input; 25 MiB at 10 MiB gives
\* [10 MiB, 10 MiB, 5 MiB].
C6_ChunkerSplit ==
    /\ chunk_sizes(25 * MiB, 10 * MiB) = <<10 * MiB, 10 * MiB, 5 * MiB>>
    /\ ePc \notin {"Init", "KeyReady"} =>
         LET L == Len(fileData)
             c == chunkSize
             N == Len(eChunks)
         IN /\ N = (L + c - 1) \div c
            /\ \A i \in 1 .. N - 1 : Len(eChunks[i]) = c
            /\ N > 0 => Len(eChunks[N]) = (IF L % c # 0 THEN L % c ELSE c)
            /\ \A i \in 1 .. N : Len(eChunks[i]) > 0
            /\ Concat(eChunks) = fileData
            /\ [i \in 1 .. N |-> Len(eChunks[i])] = chunk_sizes(L, c)

C6_Witness ==
    /\ ePc = "Chunking"
    /\ Len(eChunks) = 2
    /\ Len(fileData) = chunkSize + 1
    /\ Len(eChunks[2]) = 1

\* C7: a completed encrypt flow over an input of N segments has emitted exactly the
\* indices 0..N-1, each once, and the returned list is in ascending index order.
C7_EmittedIndices ==
    ePc = "Done" =>
        LET N == Len(chunk_file(fileData, chunkSize))
        IN /\ Len(emitted) = N
           /\ IndexSet(emitted) = 0 .. N - 1
           /\ \A i, j \in 1 .. Len(emitted) :
                 i < j => emitted[i].chunk_index < emitted[j].chunk_index

C7_Witness ==
    /\ ePc = "Done"
    /\ Len(emitted) = 3
    /\ IndicesOf(emitted) = <<0, 1, 2>>

HasDuplicate(records) ==
    \E i, j \in 1 .. Len(records) : i # j /\ records[i].chunk_index = records[j].chunk_index

HasGap(records) ==
    \E r \in IndexSet(records) : \E k \in 0 .. r : k \notin IndexSet(records)

\* C8: a supplied list whose indices have a gap or a duplicate is rejected with
\* CorruptMetadataError and no plaintext is returned.
C8_GapOrDuplicateRejected ==
    (dPc # "Init" /\ (HasGap(stored) \/ HasDuplicate(stored))) =>
        /\ dPc = "Failed"
        /\ dErr.class = "CorruptMetadataError"
        /\ dOut = <<>>

C8_Witness ==
    /\ dPc = "Failed"
    /\ dErr.class = "CorruptMetadataError"
    /\ IndicesOf(stored) = <<0, 2>>

OutOfOrder(records) ==
    \E i, j \in 1 .. Len(records) : i < j /\ records[i].chunk_index > records[j].chunk_index

CompleteSet(records) == ~HasDuplicate(records) /\ ~HasGap(records)

\* C9 as stated: a complete, duplicate-free list supplied out of index order makes the
\* decrypt flow fail with CorruptMetadataError.
C9_OutOfOrderRejected ==
    (dPc # "Init" /\ OutOfOrder(stored) /\ CompleteSet(stored)) =>
        (dPc = "Failed" /\ dErr.class = "CorruptMetadataError")

\* C9 amended: a complete, duplicate-free list supplied out of index order is not
\* rejected with CorruptMetadataError; the flow orders the records by chunk index
\* itself and works on the ordered list.
C9_OutOfOrderSorted ==
    (dPc # "Init" /\ OutOfOrder(stored) /\ CompleteSet(stored)) =>
        /\ dErr.class # "CorruptMetadataError"
        /\ Len(dRecs) = Len(stored)
        /\ \A i \in 1 .. Len(dRecs) : dRecs[i].chunk_index = i - 1

C9_Witness ==
    /\ IndicesOf(stored) = <<1, 0>>
    /\ dPc = "Done"
    /\ dOut = fileData

\* The supplied list holds exactly the emitted records, in some physical order.
SameRecords(a, b) ==
    /\ Len(a) = Len(b)
    /\ \A i \in 1 .. Len(a) : \E j \in 1 .. Len(b) : a[i] = b[j]
    /\ ~HasDuplicate(a)

\* C10: ordering invariant.  Whatever the physical order of the complete set of
\* records and, in parallel mode, whatever the order in which the chunk decryptions
\* complete, the results sit in index order before concatenation and the output is
\* the original byte string.
C10_OrderingInvariant ==
    (ePc = "Done" /\ SameRecords(stored, emitted)) =>
        /\ dPc # "Failed"
        /\ dPc \in {"Reassembling", "Done"} =>
              /\ Len(dSlots) = Len(eChunks)
              /\ \A p \in 1 .. Len(dSlots) : dSlots[p] = eChunks[p]
        /\ dPc = "Done" => dOut = fileData

C10_Witness ==
    /\ mode = "parallel"
    /\ dPc = "Done"
    /\ OutOfOrder(stored)
    /\ SameRecords(stored, emitted)
    /\ \E i, j \in 1 .. Len(dOrder) : i < j /\ dOrder[i] > dOrder[j]
    /\ dOut = fileData
    /\ \E i \in 1 .. Len(fileData) : fileData[i] # fileData[1]

\* The stored checksum of a record does not match its ciphertext_with_tag.
Mismatch(r) == ~verify_checksum(r.data, r.checksum)

\* The step was performed on the chunk of index i.
Attempted(i, step) ==
    \E k \in 1 .. Len(dTrace) : dTrace[k] = [index |-> i, step |-> step]

FlippedCt(r) ==
    /\ r.chunk_index + 1 \in 1 .. Len(emitted)
    /\ LET e == emitted[r.chunk_index + 1].data
       IN /\ r.data.tag = e.tag
          /\ Len(r.data.ct) = Len(e.ct)
          /\ Cardinality({k \in 1 .. Len(e.ct) : r.data.ct[k] # e.ct[k]}) = 1

\* Some step of download step 4 was performed on the chunk of index i.
Processed(i) == \E k \in 1 .. Len(dTrace) : dTrace[k].index = i

PlainOfRecord(r) ==
    decrypt_file_chunk(r.data, derive_chunk_key(dKey[1], r.file_id, r.chunk_index), r.iv).data

\* C13: no partial output.  No byte is handed to the caller before Done; a failed
\* flow is over, has handed over nothing and keeps no decrypted chunk, whichever index
\* failed and however many chunks were decrypted before; a flow that is Done is over
\* and has returned the plaintext of every supplied chunk, in index order.
C13_NoPartialOutput ==
    /\ dPc # "Done" => dOut = <<>>
    /\ dPc = "Failed" =>
          /\ dErr.class # "None"
          /\ dSlots = <<>>
          /\ ~ENABLED Next
    /\ dPc = "Done" =>
          /\ dErr = NoError
          /\ Len(dRecs) = Len(stored)
          /\ Len(dSlots) = Len(dRecs)
          /\ dOut = Concat([p \in 1 .. Len(dRecs) |-> PlainOfRecord(dRecs[p])])
          /\ Len(dOut) = SumSeq([p \in 1 .. Len(dRecs) |-> dRecs[p].chunk_size])
          /\ ~ENABLED Next

C13_Witness ==
    /\ mode = "parallel"
    /\ dPc = "Failed"
    /\ dErr.index = 0
    /\ Len(dOrder) = 2
    /\ Attempted(1, "decrypt_file_chunk")
    /\ Attempted(2, "decrypt_file_chunk")
    /\ dOut = <<>>

\* C20: emitted sizes.  Every record emitted by the encrypt flow has
\* ciphertext_size = plaintext_size + 16, plaintext_size being the length of its
\* segment and ciphertext_size the length of ciphertext and tag; the total size
\* returned on completion is the sum of the plaintext sizes and the length of the input.
C20_EmittedSizes ==
    /\ \A i \in 1 .. Len(emitted) :
          /\ emitted[i].encrypted_size = emitted[i].chunk_size + 16
          /\ emitted[i].chunk_size = Len(eChunks[i])
          /\ emitted[i].encrypted_size = Len(emitted[i].data.ct) + 16
    /\ ePc = "Done" =>
          /\ eTotal = SumSeq([i \in 1 .. Len(emitted) |-> emitted[i].chunk_size])
          /\ eTotal = Len(fileData)
    /\ ePc # "Done" => eTotal = 0

C20_Witness ==
    /\ ePc = "Done"
    /\ Len(fileData) = 3
    /\ chunkSize = 2
    /\ eTotal = 3
    /\ Len(emitted) = 2
    /\ emitted[1].encrypted_size = 18
    /\ emitted[2].encrypted_size = 17

\* Plaintext chunks held by the upload flow: the list chunk_file returned lives
\* until the flow returns.
ResidentUploadChunks ==
    IF ePc \in {"Chunking", "EncryptingChunk"} THEN Len(eChunks) ELSE 0

\* Decrypted chunks held by the download flow until the file is handed over.
ResidentDownloadChunks ==
    Cardinality({p \in 1 .. Len(dSlots) : dSlots[p] # <<>>})

\* C21: bounded residency.  The upload flow, which takes the chunks one after the
\* other, never holds more than one chunk; the download flow in sequential mode
\* never holds more than one chunk, and the chunk operations in flight never exceed
\* the size of the worker pool.
C21_BoundedResidency ==
    /\ ResidentUploadChunks <= 1
    /\ mode = "sequential" => ResidentDownloadChunks <= 1
    /\ Cardinality(pInFlight) <= PoolSize(mode)

\* The successor states of the encrypt flow.
EncryptOrder ==
    {<<"Init", "KeyReady">>, <<"KeyReady", "Chunking">>,
     <<"Chunking", "EncryptingChunk">>, <<"EncryptingChunk", "EncryptingChunk">>,
     <<"Chunking", "Done">>, <<"EncryptingChunk", "Done">>}

C23_Step ==
    /\ ePc' # ePc => <<ePc, ePc'>> \in EncryptOrder
    /\ (ePc' = ePc /\ <<userKey, eChunks, emitted>>' # <<userKey, eChunks, emitted>>)
          => ePc = "EncryptingChunk"
    /\ userKey' # userKey => (ePc = "Init" /\ ePc' = "KeyReady" /\ userKey = NoKey)
    /\ ePc' = "KeyReady" /\ ePc = "Init" => userKey' # NoKey

\* C23: order of the encrypt flow.  The flow moves Init, KeyReady, Chunking, any
\* number of EncryptingChunk steps, Done, without skipping or revisiting a state;
\* the user key is obtained once, on the step from Init to KeyReady, before any
\* chunk is read or encrypted, and is not written afterwards.
C23_EncryptOrder ==
    /\ [][C23_Step]_vars
    /\ [](ePc \in {"Init", "KeyReady"} => (eChunks = <<>> /\ emitted = <<>>))
    /\ [](ePc # "Init" => userKey # NoKey)

C23_Witness ==
    /\ ePc = "Done"
    /\ Len(emitted) >= 2
    /\ userKey # NoKey

\* The successor states of the decrypt flow; a failure ends it from any state before
\* Reassembling.
DecryptOrder ==
    {<<"Init", "MetadataLoaded">>, <<"MetadataLoaded", "DecryptingChunk">>,
     <<"DecryptingChunk", "DecryptingChunk">>, <<"MetadataLoaded", "Reassembling">>,
     <<"DecryptingChunk", "Reassembling">>, <<"Reassembling", "Done">>,
     <<"Init", "Failed">>, <<"MetadataLoaded", "Failed">>, <<"DecryptingChunk", "Failed">>}

\* The index validation of the supplied records has taken place.
Validated == dPc # "Init"

\* Every supplied chunk has passed its checksum verification and its decryption.
AllChunksPassed ==
    \A p \in 1 .. Len(dRecs) :
        LET r == dRecs[p]
        IN /\ Attempted(r.chunk_index, "verify_checksum")
           /\ Attempted(r.chunk_index, "decrypt_file_chunk")
           /\ ~Mismatch(r)
           /\ decrypt_file_chunk(r.data, derive_chunk_key(dKey[1], r.file_id, r.chunk_index),
                                 r.iv).ok
           /\ dSlots[p] = PlainOfRecord(r)

C24_Step ==
    /\ dPc' # dPc => <<dPc, dPc'>> \in DecryptOrder
    /\ (dPc' = dPc /\ <<dSlots, dTrace, dOut, dRecs>>' # <<dSlots, dTrace, dOut, dRecs>>)
          => dPc = "DecryptingChunk"

Attempts(i, step) ==
    Cardinality({k \in 1 .. Len(dTrace) : dTrace[k] = [index |-> i, step |-> step]})

\* A failed flow takes no further step.
C25_FailureIsFinal ==
    dPc = "Failed" => UNCHANGED <<dPc, dErr, dTrace, dSlots, dOut, dRecs, dPending, dKey>>

\* C25: no retry.  Each chunk index gets at most one checksum verification, one key
\* derivation and one decryption, and the upload emits one record per chunk; the
\* first chunk failure is the last chunk operation of the flow, which reports that
\* error and hands over nothing.
C25_NoRetry ==
    /\ [](\A k \in 1 .. Len(dTrace) : Attempts(dTrace[k].index, dTrace[k].step) = 1)
    /\ [](\A i, j \in 1 .. Len(emitted) :
             emitted[i].chunk_index = emitted[j].chunk_index => i = j)
    /\ [](dPc = "Failed" /\ dTrace # <<>> =>
             /\ dErr.class \in {"ChunkCorruptedError", "ChunkAuthenticationError"}
             /\ dErr.index = dTrace[Len(dTrace)].index
             /\ dOut = <<>>)
    /\ [](dErr.class \in {"ChunkCorruptedError", "ChunkAuthenticationError"} =>
             dPc = "Failed")
    /\ [][C25_FailureIsFinal]_vars

C25_Witness ==
    /\ dPc = "Failed"
    /\ dErr = [class |-> "ChunkAuthenticationError", index |-> 1]
    /\ Len(dRecs) = 3
    /\ Attempts(0, "decrypt_file_chunk") = 1
    /\ Attempts(1, "decrypt_file_chunk") = 1
    /\ ~Processed(2)

\* The list positions of the supplied records that fail their checksum verification
\* or their decryption under the user key of the download.
BadChunks == {p \in 1 .. Len(dRecs) : DownloadChunk(dRecs[p], dKey[1]).class # "None"}

\* The error of the chunk at list position p.
ErrorOf(p) ==
    [class |-> DownloadChunk(dRecs[p], dKey[1]).class, index |-> dRecs[p].chunk_index]

ChunkFailure == dPc = "Failed" /\ dErr.class # "CorruptMetadataError"

----------------------------------------------------------------------------
\* Properties of the key retrieval flow (checked under SpecKeys)

Done(p) == kPc[p] = "done"

PlainOf(row) ==
    decrypt_user_key(row.key_encrypted, row.salt, derive_master_key(masterSecret)).key

\* C3: concurrent first use.  Absent faults at the storage boundary, every finished
\* call finds exactly one row stored for its user and has returned the plaintext of
\* that row, so all callers of one user hold the same key; a caller whose insert hit
\* the uniqueness violation has fetched the stored row and returned its key, not an
\* error.
C3_ConcurrentFirstUse ==
    kFaults = 0 =>
        \A p \in Procs :
            Done(p) =>
                LET rows == StorageLookup(keyTable, kUser[p])
                IN /\ Len(rows) = 1
                   /\ kRes[p].status = "ok"
                   /\ kRes[p].key = PlainOf(rows[1])
                   /\ kViolation[p] => kRow[p] = rows[1]
                   /\ \A q \in Procs :
                         (Done(q) /\ kUser[q] = kUser[p]) => kRes[q].key = kRes[p].key

C3_Witness ==
    /\ kFaults = 0
    /\ \E p, q \in Procs :
          /\ p # q
          /\ Done(p) /\ Done(q)
          /\ kUser[p] = kUser[q]
          /\ kViolation[p] /\ ~kViolation[q]
          /\ kRow[q] = NoRow
          /\ kRes[p].status = "ok"
          /\ kRes[p].key = kRes[q].key

C4_OneRowPerUser == \A u \in Users : Len(StorageLookup(keyTable, u)) <= 1

C4_SameKeyReturned ==
    \A p \in Procs :
        /\ kRes[p].status = "ok" => kRes[p].key = kOrig[kUser[p]].key
        /\ (Done(p) /\ kFaults = 0) => kRes[p].status = "ok"

C4_RowsKept ==
    kFaults' = kFaults =>
        /\ Len(keyTable') >= Len(keyTable)
        /\ \A i \in 1 .. Len(keyTable) : keyTable'[i] = keyTable[i]

\* C4: the key storage never holds two rows of one user; no step of get_or_create
\* modifies or replaces a stored row; every call that returns a key returns the key
\* of the creating call, and absent faults every finished call returns it.
C4_KeyImmutable ==
    /\ [](C4_OneRowPerUser /\ C4_SameKeyReturned)
    /\ [][C4_RowsKept]_vars

C4_Witness ==
    /\ kCalls = MaxCalls
    /\ \E p \in Procs :
          /\ Done(p)
          /\ ~kViolation[p]
          /\ kRow[p] # NoRow
          /\ kRes[p].status = "ok"
          /\ kRes[p].key = kOrig[kUser[p]].key
          /\ kFaults = 0

\* The fetched row no longer unseals: it is not the row as inserted, or the master
\* key is not the one it was sealed under.
BadRow(row) ==
    \/ row # kOrig[row.user_id].row
    \/ masterSecret # kOrig[row.user_id].secret

C5_FailedUnsealStep ==
    \A p \in Procs :
        (kPc[p] = "unseal" /\ kPc'[p] # "unseal" /\ BadRow(kRow[p])) =>
            /\ kPc'[p] = "done"
            /\ kRes'[p] = [status |-> "IntegrityError", key |-> NoKey]
            /\ keyTable' = keyTable
            /\ kNew' = kNew
            /\ kRng' = kRng

C5_ErrorIsFinal ==
    \A p \in Procs :
        kRes[p].status = "IntegrityError" =>
            /\ Done(p)
            /\ kRes[p].key = NoKey
            /\ kRow[p] # NoRow

\* C5: when the row found for the user fails its tag check, the call ends with
\* IntegrityError: nothing is generated, nothing is inserted, the table is left as
\* it is and no key material is returned.
C5_IntegrityError ==
    /\ []C5_ErrorIsFinal
    /\ [][C5_FailedUnsealStep]_vars

C5_Witness ==
    \E p \in Procs :
        /\ kRes[p].status = "IntegrityError"
        /\ ~kViolation[p]
        /\ kNew[p] = NoNew
        /\ StorageLookup(keyTable, kUser[p]) # <<>>

\* Every sealed row, as inserted, unseals to the key it was made from under the
\* master key it was sealed with, and under any other master key fails without key.
C16_SealedRows ==
    \A u \in Users :
        kOrig[u] # NoOrig =>
            \A s \in Secrets :
                LET res == decrypt_user_key(kOrig[u].row.key_encrypted, kOrig[u].row.salt,
                                            derive_master_key(s))
                IN IF s = kOrig[u].secret
                   THEN res = [ok |-> TRUE, key |-> kOrig[u].key]
                   ELSE res = [ok |-> FALSE, key |-> NoKey]

\* The unseal step of a call on an unmodified row.
C16_UnsealStep ==
    \A p \in Procs :
        (kPc[p] = "unseal" /\ kPc'[p] = "done" /\ kRow[p] = kOrig[kUser[p]].row) =>
            kRes'[p] = IF masterSecret = kOrig[kUser[p]].secret
                       THEN [status |-> "ok", key |-> kOrig[kUser[p]].key]
                       ELSE [status |-> "IntegrityError", key |-> NoKey]

\* C16: key sealing round trip.  unseal of the blob and salt that seal(k, m) returned
\* gives k back under the same master key m; under any other master key it fails
\* with IntegrityError and returns no key bytes.
C16_SealRoundTrip ==
    /\ []C16_SealedRows
    /\ [][C16_UnsealStep]_vars

C16_Witness ==
    \E p, q \in Procs :
        /\ p # q
        /\ Done(p) /\ Done(q)
        /\ kUser[p] = kUser[q]
        /\ kRow[p] = kOrig[kUser[p]].row
        /\ kRow[q] = kOrig[kUser[q]].row
        /\ kRes[q] = [status |-> "ok", key |-> kOrig[kUser[q]].key]
        /\ kRes[p] = [status |-> "IntegrityError", key |-> NoKey]
        /\ masterSecret # kOrig[kUser[p]].secret

----------------------------------------------------------------------------
\* Properties of the chunk encryptions (checked under SpecCipher)

\* Two encryptions ran under the same chunk key with the same nonce.
SameKeyAndNonce(a, b) == a.chunk_key = b.chunk_key /\ a.row.iv = b.row.iv

\* C14: nonce uniqueness.  Over every sequence of chunk encryptions (several chunks,
\* several files, the same chunk encrypted again with the same or with changed
\* content) no (chunk key, nonce) pair is used for two different plaintexts, and the
\* nonces of the rows of one file are pairwise distinct.
C14_NonceUniqueness ==
    \A a, b \in 1 .. Len(cLog) :
        a # b =>
            /\ SameKeyAndNonce(cLog[a], cLog[b]) => cLog[a].chunk_data = cLog[b].chunk_data
            /\ cLog[a].row.file_id = cLog[b].row.file_id => cLog[a].row.iv # cLog[b].row.iv

C14_Witness ==
    /\ Len(cLog) = 3
    /\ cLog[1].row.file_id = cLog[2].row.file_id
    /\ cLog[1].row.chunk_index = cLog[2].row.chunk_index
    /\ cLog[1].chunk_data # cLog[2].chunk_data
    /\ cLog[1].chunk_key = cLog[2].chunk_key
    /\ cLog[3].row.file_id # cLog[1].row.file_id
    /\ cLog[3].row.chunk_index # cLog[1].row.chunk_index

\* The same chunk of the same file is encrypted again.
SameChunk(a, b) ==
    /\ a.row.file_id = b.row.file_id
    /\ a.row.chunk_index = b.row.chunk_index

\* C15: idempotent retry.  Encrypting the same chunk index of the same file again
\* with the same plaintext yields the row of the first attempt (the same nonce and
\* ciphertext, no second nonce); with a different plaintext it yields neither the
\* nonce nor the ciphertext of an earlier attempt.
C15_IdempotentRetry ==
    \A a, b \in 1 .. Len(cLog) :
        (a < b /\ SameChunk(cLog[a], cLog[b])) =>
            IF cLog[a].chunk_data = cLog[b].chunk_data
            THEN cLog[b].row = cLog[a].row
            ELSE /\ cLog[b].row.iv # cLog[a].row.iv
                 /\ cLog[b].row.data # cLog[a].row.data

----------------------------------------------------------------------------
\* Properties of the encrypt flow with chunk fan-out (checked under SpecParallel)

\* The record holds the encryption of the segment of its index under the key derived
\* for (file id, index).
RecordHolds(r) ==
    LET i == r.chunk_index
        chunk_key == derive_chunk_key(userKey[1], FileId, i)
    IN /\ i + 1 \in 1 .. Len(eChunks)
       /\ r.file_id = FileId
       /\ r.data.tag.key.ikm = userKey[1]
       /\ r.data.tag.key.info = chunk_info(FileId, i)
       /\ decrypt_file_chunk(r.data, chunk_key, r.iv) = [ok |-> TRUE, data |-> eChunks[i + 1]]
       /\ r.chunk_size = Len(eChunks[i + 1])

\* C18: with chunk fan-out the index travels with the task from dispatch on: every
\* task in flight carries the segment of its index, every record produced, in
\* whatever order the workers complete, holds the encryption of the segment of its
\* index under the key derived for (file id, index), no index is produced twice, and
\* the returned list is complete and in index order.
C18_IndexBeforeDispatch ==
    /\ \A t \in pInFlight :
          /\ t.chunk_index + 1 \in 1 .. pNext
          /\ t.chunk_data = eChunks[t.chunk_index + 1]
    /\ \A k \in 1 .. Len(pResults) : RecordHolds(pResults[k])
    /\ ~HasDuplicate(pResults)
    /\ \A k \in 1 .. Len(pResults) :
          \A t \in pInFlight : t.chunk_index # pResults[k].chunk_index
    /\ ePc = "Done" =>
          /\ Len(emitted) = Len(eChunks)
          /\ SameRecords(emitted, pResults)
          /\ \A q \in 1 .. Len(emitted) :
                emitted[q].chunk_index = q - 1 /\ RecordHolds(emitted[q])

C18_Witness ==
    /\ mode = "parallel"
    /\ ePc = "Done"
    /\ Len(pResults) = 3
    /\ pResults[1].chunk_index = 1
    /\ IndicesOf(emitted) = <<0, 1, 2>>
    /\ eChunks[1] # eChunks[2]

\* Once cancelled, no chunk is dispatched.
C19_NoDispatchAfterCancel ==
    pCancelled => (pCancelled' /\ pNext' = pNext /\ pInFlight' \subseteq pInFlight)

\* A chunk operation that leaves the set in flight after cancellation has completed
\* (its record is the one appended) or was abandoned.
C19_CompleteOrAbandon ==
    pCancelled =>
        \A t \in pInFlight \ pInFlight' :
            \/ /\ Len(pResults') = Len(pResults) + 1
               /\ pResults'[Len(pResults')].chunk_index = t.chunk_index
               /\ pAbandoned' = pAbandoned
            \/ /\ pAbandoned' = pAbandoned \cup {t.chunk_index}
               /\ pResults' = pResults

\* A cancelled operation never reports Done; once ended, nothing is in flight, nothing
\* was returned and no step is left.
C19_Terminated ==
    /\ pCancelled => ePc # "Done"
    /\ ePc = "Cancelled" =>
          /\ pCancelled
          /\ pInFlight = {}
          /\ emitted = <<>>
          /\ eTotal = 0
          /\ ~ENABLED ParNext

\* C19: cancellation.  After the caller cancels, no further chunk is dispatched; the
\* chunk operations in flight complete or are abandoned; the operation then ends.
C19_Cancellation ==
    /\ [][C19_NoDispatchAfterCancel]_vars
    /\ [][C19_CompleteOrAbandon]_vars
    /\ []C19_Terminated
    /\ (pCancelled ~> ePc = "Cancelled")

C19_Witness ==
    /\ ePc = "Cancelled"
    /\ pNext < Len(eChunks)
    /\ pAbandoned # {}
    /\ Len(pResults) >= 1
    /\ pNext = Len(pResults) + Cardinality(pAbandoned)

----------------------------------------------------------------------------
\* Properties of the connect-cloud-account flow (checked under SpecOAuth)

\* The callback page has handled a redirect that carries a code and the state
\* handleConnect stored for the provider.
RedirectHandled ==
    /\ oPage = CloudAccountsPath
    /\ oLocation.code # Null
    /\ oLocation.state = oPending.state

CallbackCalled(provider) ==
    \E i \in 1 .. Len(oCalls) :
        /\ oCalls[i].provider = provider
        /\ oCalls[i].code = oLocation.code
        /\ oCalls[i].state = oLocation.state
        /\ oCalls[i].ok =>
              \E j \in 1 .. Len(accounts) :
                  /\ accounts[j].provider = provider
                  /\ accounts[j].account_id = oLocation.state

\* C22: once the provider has redirected the browser back with a code and the
\* state that handleConnect stored for a provider, the frontend has called the
\* callback endpoint for that same provider with the code and the state, and
\* the account the backend answered with is in the store.
C22_ConnectCompletes ==
    RedirectHandled => CallbackCalled(oPending.provider)

----------------------------------------------------------------------------
\* Properties of the files store (checked under SpecFiles)

C27_CallStep ==
    (usageInFlight = 0 /\ usageSkipped' + usageInFlight' > usageSkipped + usageInFlight)
        => usageInFlight' = 1

\* C27: fetchStorageUsage is single-flight.  At most one getStorageUsage request is
\* in flight, whatever calls arrive from the page effect and the delayed refreshes;
\* isFetchingStorageUsage is true exactly while a request is in flight, so it is
\* false again once the request has settled, with any answer, and a call made then
\* sends a request.
C27_SingleFlight ==
    /\ [](usageInFlight <= 1)
    /\ [](filesStore.isFetchingStorageUsage <=> usageInFlight = 1)
    /\ [][C27_CallStep]_vars

C27_Witness ==
    /\ usageSkipped >= 2
    /\ usageInFlight = 0
    /\ ~filesStore.isFetchingStorageUsage
    /\ fsCalls.page = MaxPageFetches
    /\ fsCalls.upload >= 1
    /\ fsCalls.delete >= 1
    /\ refreshTimers = 0
    /\ filesStore.storageUsage # Null

C28_Step ==
    (StorageUsageSettles(429) /\ filesStore.storageUsage # Null)
        => filesStore'.storageUsage = filesStore.storageUsage

\* C28: a storage-usage fetch that is answered with 429 leaves the storage usage
\* fetched before as it is.
C28_RateLimitKeepsUsage == [][C28_Step]_vars

\* C29: once uploadFile has settled, with success or with failure, its progress
\* timer is stopped: while no upload is running the progress is 0 and no timer of
\* an upload is left.
C29_ProgressTimerStopped ==
    ~filesStore.isUploading =>
        /\ filesStore.uploadProgress = 0
        /\ progressIntervals = 0

----------------------------------------------------------------------------
\* Properties of the authentication store (checked under SpecAuth)

\* C30: after a login or register call that failed, at the token request or at the
\* request of the user that follows it, the store is not authenticated, holds no
\* token and no user, and localStorage holds no auth_token.
C30_FailedLoginLeavesNothing ==
    authOutcome = "failed" =>
        /\ ~authStore.isAuthenticated
        /\ authStore.token = Null
        /\ authStore.user = Null
        /\ localStorage = Null

====
